---- MODULE Spec2Model ----
(***************************************************************************)
(* J1hub: identity-verification workflow, listing-creation gate and the    *)
(* employer billing ledger, modelled from the Flask handlers in routes/.   *)
(*                                                                         *)
(* Encoding: primary keys are positions in the table's sequence (1, 2, ..),*)
(* the NULL id is 0, Python None is the string NoneVal, timestamps are     *)
(* integers and the NULL timestamp is NoTime.                              *)
(***************************************************************************)
EXTENDS Integers, Sequences, FiniteSets, Bags, TLC

\* ------------------------------------------------------------------ bounds
MaxUsers == 2
MaxDocs == 1
\* The ledger specification: registered users, the cap on an account's
\* credits, the latest subscription period end and the listings table.
MaxLedgerUsers == 1
MaxCredits == 1
MaxTime == 0
MaxListings == 2
\* The reading specification: the listings that are stored when they are read.
MaxViewListings == 1
\* The gateway specification: the accounts the events name, the largest
\* purchased quantity, the latest period end and the deliveries made.
MaxGatewayUsers == 2
MaxQuantity == 2
MaxPeriodEnd == 1
MaxDeliveries == 3
\* The creation specification: registered users and webhook deliveries.
MaxCreateUsers == 2
MaxCreateDeliveries == 2
\* The submission specification: registered users and documents.
MaxSubmitUsers == 2
MaxSubmitDocs == 2
\* The review queue specification: an admin and one other user (or two of a
\* kind) share the queue; the documents are the bound.
QueueUsers == 2
MaxQueueDocs == 2
\* The rate limit specification: the clock runs for one window of a minute
\* and a second more; a bucket counts so many requests.
\* The access grant specification: an admin who posts and reviews and one
\* other user; the documents are the bound.
GrantUsers == 2
GrantListings == 1
MaxGrantDocs == 2
\* The update specification: an owner and an admin; the listings are the
\* bound.
UpdateUsers == 2
MaxUpdateListings == 1
\* The application specification: a poster and a worker, one listing; the
\* applications are the bound.
ApplyUsers == 2
ApplyListings == 1
MaxApplications == 2
MaxClock == 61
MaxRequests == 3

\* --------------------------------------------------------------- constants
NoneVal == "None"
NullId == 0
NoTime == -1
MAX_UPLOAD_SIZE_DEFAULT == 10485760
ALLOWED_EXTENSIONS_DEFAULT == {"jpeg", "jpg", "png", "pdf"}
ALLOWED_ROLES == {"worker", "employer", "admin"}
VERIFICATION_STATUSES == {"unverified", "pending", "approved", "rejected"}
VISA_DOCUMENT_STATUSES == {"pending", "approved", "rejected"}

LISTING_CATEGORIES == {"jobs", "housing", "rides", "gigs"}

VARIABLES users, docs, resp, subs, listings, slot, utcnow, view,
          blobs, config, hook, delivered, limiter, applications

vars == <<users, docs, resp, subs, listings, slot, utcnow, view,
          blobs, config, hook, delivered, limiter, applications>>
verifyVars == <<docs, resp, blobs>>
gatewayVars == <<config, hook, delivered>>
ledgerVars == <<subs, listings, slot>>
viewVars == <<utcnow, view>>

\* ------------------------------------------------------------ Python glue
\* Python truthiness of an optional string, and `a or b`.
Truthy(v) == v \notin {NoneVal, ""}
PyOr(a, b) == IF Truthy(a) THEN a ELSE b

\* str.strip().lower() on the raw texts the model sends.
StripLower(s) ==
    CASE s = " ADMIN " -> "admin"
      [] s = "Employer" -> "employer"
      [] s = "PDF" -> "pdf"
      [] s = " TRUE " -> "true"
      [] s = "No" -> "no"
      [] OTHER -> s

\* ------------------------------------------------------------------ inputs
\* Bearer tokens are issued by login for registered users only; 0 is a
\* request without a token.
Callers == 0..Len(users)
DocIds == 1..(MaxDocs + 1)
RawRoles == {NoneVal, "worker", "employer", "admin", " ADMIN ", "owner"}
\* Emails are numbered; 0 is a missing or blank email.  A fresh email is the
\* next unused number, so the email of user i is i.
RegisterInputs(raw_roles) ==
    {<<0, TRUE, NoneVal>>, <<Len(users) + 1, FALSE, NoneVal>>, <<1, TRUE, NoneVal>>}
    \cup {<<Len(users) + 1, TRUE, raw_role>> : raw_role \in raw_roles}
\* Employers and workers take the same paths through the verification
\* handlers; the verification specification registers workers and admins.
VerifyRawRoles == RawRoles \ {"employer"}
RawWaivers == {NoneVal, "true", " TRUE ", "false", "No", "maybe"}
NoFile == [present |-> FALSE, filename |-> "", ext |-> "", size |-> 0]
File(filename, ext, size) ==
    [present |-> TRUE, filename |-> filename, ext |-> ext, size |-> size]
GoodFiles ==
    {File("visa", "pdf", 8), File("visa", "PDF", MAX_UPLOAD_SIZE_DEFAULT)}
BadFiles ==
    {NoFile, File("", "", 8), File("visa", "exe", 8),
     File("visa", "pdf", MAX_UPLOAD_SIZE_DEFAULT + 1)}
Files == GoodFiles \cup BadFiles
\* Every waiver text with a good file, every bad file with a good waiver.
UploadInputs ==
    {<<0, File("visa", "pdf", 8), "true">>}
    \cup {<<c, f, w>> : c \in 1..Len(users), f \in {File("visa", "pdf", 8)}, w \in RawWaivers}
    \cup {<<c, f, "true">> : c \in 1..Len(users), f \in Files}
\* Request bodies of the review endpoints: kind "empty" has no content,
\* "form" has content that is not application/json, "json" carries an object.
Body(kind, review_note, note) ==
    [kind |-> kind, review_note |-> review_note, note |-> note]
Bodies ==
    {Body("empty", NoneVal, NoneVal), Body("form", NoneVal, NoneVal),
     Body("json", NoneVal, NoneVal), Body("json", "n1", NoneVal),
     Body("json", "", "n1"), Body("json", "", NoneVal)}
\* approve_document never reads the body: one body with a note and one
\* without cover it.
ApproveBodies == {Body("empty", NoneVal, NoneVal), Body("json", "n1", NoneVal)}
ReviewInputs(bodies) ==
    {<<0, 1, Body("empty", NoneVal, NoneVal)>>}
    \cup {<<c, d, b>> : c \in 1..Len(users), d \in DocIds, b \in bodies}

\* Two requests can be in flight at once; a slot is one request being served.
Slots == {1, 2}
\* What the request's session holds for the final commit: the new row of an
\* INSERT, or the one changed column of an UPDATE (the other is left blank).
Write(kind, user_id, listing_credits, active_until) ==
    [kind |-> kind, user_id |-> user_id, listing_credits |-> listing_credits,
     active_until |-> active_until]
NoWrite == Write("none", NullId, 0, NoTime)

\* The JSON body of a create-listing request: complete when the required
\* fields are there; is_public and is_active are "absent", "true", "false" or
\* "null"; expires_at is the parsed timestamp or NoTime.
ListingData(category, complete, is_public, is_active, expires_at) ==
    [category |-> category, complete |-> complete, is_public |-> is_public,
     is_active |-> is_active, expires_at |-> expires_at]
Payload(category, complete) ==
    ListingData(category, complete, "absent", "absent", NoTime)
NoPayload == Payload(NoneVal, FALSE)
\* A request in a slot: where it is (idle, loaded, done), the caller of a
\* create-listing request, what it is about to commit and its answer.  race is
\* a history mark, not program state: see LastCreditRace.
Slot(pc, op, uid, write, payload, status, race) ==
    [pc |-> pc, op |-> op, uid |-> uid, write |-> write, payload |-> payload,
     status |-> status, race |-> race]
IdleSlot == Slot("idle", "none", NullId, NoWrite, NoPayload, 0, FALSE)
\* The answer of a listings endpoint: the rows of the result, in order.
View(op, status, results) == [op |-> op, status |-> status, results |-> results]

\* config.py: the two Stripe settings are read from the environment when the
\* application is created; each is set or not.
StripeConfig(STRIPE_SECRET_KEY, STRIPE_WEBHOOK_SECRET) ==
    [STRIPE_SECRET_KEY |-> STRIPE_SECRET_KEY,
     STRIPE_WEBHOOK_SECRET |-> STRIPE_WEBHOOK_SECRET]
StripeConfigs == {StripeConfig(k, w) : k, w \in BOOLEAN}
\* The answer to a webhook delivery: its status, whether the signature was
\* verified against the webhook secret, and the event that was delivered.
Hook(status, verified, event) ==
    [status |-> status, verified |-> verified, event |-> event]
NoHook == Hook(0, FALSE, NoneVal)

\* app.py: the rate limiter used when flask_limiter cannot be imported.  A
\* limit is a text "<count> per <unit>"; digits tells whether its first word
\* parses as an integer.
RateLimit(digits, count, unit) == [digits |-> digits, count |-> count, unit |-> unit]
RATE_LIMIT_DEFAULT == RateLimit(TRUE, 60, "minute")

\* <<>> is None.
_parse_limit(limit) ==
    IF ~limit.digits THEN <<>>
    ELSE <<limit.count,
           IF limit.unit = "second" THEN 1
           ELSE IF limit.unit = "minute" THEN 60
           ELSE IF limit.unit = "hour" THEN 3600
           ELSE 60>>

\* The key of every request: the fallback get_remote_address answers with
\* the loopback address whoever calls.
get_remote_address(remote_addr) == "127.0.0.1"
LimiterKeys == {"127.0.0.1"}
NoBucket == [start |-> NoTime, count |-> 0]

\* _Limiter.__init__ and init_app: without a parsed limit no check is
\* installed.
_Limiter(default_limit) ==
    LET parsed == _parse_limit(default_limit)
    IN  [installed |-> parsed # <<>>,
         _max_requests |-> IF parsed # <<>> THEN parsed[1] ELSE 0,
         _window_seconds |-> IF parsed # <<>> THEN parsed[2] ELSE 0,
         _buckets |-> [key \in LimiterKeys |-> NoBucket]]

\* ------------------------------------------------------------------- state
\* The application after create_app, with empty tables and an empty upload
\* directory, under the Stripe settings of its environment.
create_app(stripe_config, rate_limit) ==
    /\ users = <<>>
    /\ docs = <<>>
    /\ resp = [op |-> "none", status |-> 0]
    /\ subs = {}
    /\ listings = <<>>
    /\ slot = [r \in Slots |-> IdleSlot]
    /\ utcnow = 0
    /\ view = View("none", 0, <<>>)
    /\ blobs = 0
    /\ config = stripe_config
    /\ hook = NoHook
    /\ delivered = EmptyBag
    /\ limiter = _Limiter(rate_limit)
    /\ applications = <<>>

\* A deployment with both Stripe settings.
Init == create_app(StripeConfig(TRUE, TRUE), RATE_LIMIT_DEFAULT)

Response(op, status) == [op |-> op, status |-> status]

\* routes/auth.py
_normalize_email(raw_email) == raw_email

_extract_role(raw_role) ==
    LET role == IF Truthy(StripLower(PyOr(raw_role, "")))
                THEN StripLower(PyOr(raw_role, ""))
                ELSE "worker"
    IN IF role \in ALLOWED_ROLES THEN role ELSE ""

\* models/user.py: a new row takes the column defaults.
User(email, role) ==
    [email |-> email, role |-> role,
     is_verified |-> FALSE, verification_status |-> "unverified"]

register_status(email, password_ok, raw_role) ==
    LET role == PyOr(_extract_role(raw_role), "worker")
    IN IF email = 0 \/ ~password_ok THEN 400
       ELSE IF Truthy(raw_role) /\ role \notin ALLOWED_ROLES THEN 400
       ELSE IF \E i \in 1..Len(users) : users[i].email = _normalize_email(email)
            THEN 409
       ELSE 201

register(email, password_ok, raw_role) ==
    LET role == PyOr(_extract_role(raw_role), "worker")
        status == register_status(email, password_ok, raw_role)
    IN /\ resp' = Response("register", status)
       /\ users' = IF status = 201
                   THEN Append(users, User(_normalize_email(email), role))
                   ELSE users
       /\ UNCHANGED <<docs, blobs, ledgerVars, viewVars, gatewayVars, limiter, applications>>

\* routes/verify.py
_parse_bool(value) ==
    IF value = NoneVal THEN "None"
    ELSE IF StripLower(value) \in {"1", "true", "yes", "y"} THEN "True"
    ELSE IF StripLower(value) \in {"0", "false", "no", "n"} THEN "False"
    ELSE "None"

_allowed_extensions == ALLOWED_EXTENSIONS_DEFAULT

\* Mutant: a file of exactly the maximum size is refused.
_validate_document_ceiling_excluded(file) ==
    /\ file.filename # ""
    /\ StripLower(file.ext) \in _allowed_extensions
    /\ ~(file.size >= MAX_UPLOAD_SIZE_DEFAULT)

\* TRUE when _validate_document returns without raising BadRequest.
_validate_document(file) ==
    /\ file.filename # ""
    /\ StripLower(file.ext) \in _allowed_extensions
    /\ ~(file.size > MAX_UPLOAD_SIZE_DEFAULT)

\* Mutant: the derived flag is cleared only by a rejection.
_update_user_status_flag_bug(user, status) ==
    [user EXCEPT !.verification_status = status,
                 !.is_verified = (status # "rejected")]

_update_user_status(user, status) ==
    [user EXCEPT !.verification_status = status,
                 !.is_verified = (status = "approved")]

\* file_path is the number of the stored file: names are fresh uuids.
VisaDocument(user_id, file_path, waiver) ==
    [user_id |-> user_id, file_path |-> file_path, status |-> "pending",
     reviewer_id |-> NullId, review_note |-> NoneVal,
     waiver_acknowledged |-> waiver]

\* Mutant: a verified user cannot submit again.
upload_status_no_resubmission(caller, file, waiver) ==
    IF caller = 0 THEN 401
    ELSE IF caller > Len(users) THEN 404
    ELSE IF users[caller].is_verified THEN 409
    ELSE IF ~file.present THEN 400
    ELSE IF ~_validate_document(file) THEN 400
    ELSE IF _parse_bool(waiver) = "None" THEN 400
    ELSE 201

upload_status(caller, file, waiver) ==
    IF caller = 0 THEN 401
    ELSE IF caller > Len(users) THEN 404
    ELSE IF ~file.present THEN 400
    ELSE IF ~_validate_document(file) THEN 400
    ELSE IF _parse_bool(waiver) = "None" THEN 400
    ELSE 201

\* The werkzeug exception upload_document ends with, "None" when it answers
\* 201: every refusal of the file or of the waiver is a BadRequest.
upload_error(caller, file, waiver) ==
    IF caller = 0 THEN "Unauthorized"
    ELSE IF caller > Len(users) THEN "NotFound"
    ELSE IF ~file.present THEN "BadRequest"
    ELSE IF ~_validate_document(file) THEN "BadRequest"
    ELSE IF _parse_bool(waiver) = "None" THEN "BadRequest"
    ELSE "None"

\* storage/local_storage.py: save writes the file under the upload directory
\* and returns its path, or raises when the file system refuses the write.
LocalStorage_save(saved) == IF saved THEN blobs + 1 ELSE blobs

\* Mutant: the record is added and committed before the file is saved.
upload_document_record_first(caller, file, waiver, saved) ==
    LET valid == upload_status(caller, file, waiver) = 201
        status == IF valid /\ ~saved THEN 500
                  ELSE upload_status(caller, file, waiver)
    IN /\ resp' = Response("upload", status)
       /\ blobs' = IF valid THEN LocalStorage_save(saved) ELSE blobs
       /\ docs' = IF valid
                  THEN Append(docs, VisaDocument(caller, blobs + 1,
                                                 _parse_bool(waiver) = "True"))
                  ELSE docs
       /\ users' = IF valid
                   THEN [users EXCEPT ![caller] = _update_user_status(@, "pending")]
                   ELSE users
       /\ UNCHANGED <<ledgerVars, viewVars, gatewayVars, limiter, applications>>

\* upload_status is the answer while the storage works; saved tells whether
\* storage.save returned.  An exception of save leaves the handler before the
\* record is built and is answered by the handler of unexpected errors.
upload_document(caller, file, waiver, saved) ==
    LET valid == upload_status(caller, file, waiver) = 201
        status == IF valid /\ ~saved THEN 500
                  ELSE upload_status(caller, file, waiver)
    IN /\ resp' = Response("upload", status)
       /\ blobs' = IF valid THEN LocalStorage_save(saved) ELSE blobs
       /\ docs' = IF status = 201
                  THEN Append(docs, VisaDocument(caller, LocalStorage_save(saved),
                                                 _parse_bool(waiver) = "True"))
                  ELSE docs
       /\ users' = IF status = 201
                   THEN [users EXCEPT ![caller] = _update_user_status(@, "pending")]
                   ELSE users
       /\ UNCHANGED <<ledgerVars, viewVars, gatewayVars, limiter, applications>>

\* _require_admin followed by _get_document_or_404: the status the two
\* lookups end the request with, 200 when both pass.
\* Mutant: the role check is missing.
_require_admin_no_role_check(caller) ==
    IF caller = 0 THEN 401
    ELSE IF caller > Len(users) THEN 404
    ELSE 200

_require_admin(caller) ==
    IF caller = 0 THEN 401
    ELSE IF caller > Len(users) THEN 404
    ELSE IF users[caller].role # "admin" THEN 403
    ELSE 200

_get_document_or_404(document_id) ==
    IF document_id \in 1..Len(docs) THEN 200 ELSE 404

\* The status approve_document answers with: the admin check, then the
\* document lookup.
approve_status(caller, document_id) ==
    IF _require_admin(caller) # 200 THEN _require_admin(caller)
    ELSE _get_document_or_404(document_id)

\* The status reject_document answers with: the admin check, the document
\* lookup, then the content type of a non-empty body.
reject_status(caller, document_id, body) ==
    IF _require_admin(caller) # 200 THEN _require_admin(caller)
    ELSE IF _get_document_or_404(document_id) # 200 THEN 404
    ELSE IF body.kind = "form" THEN 400
    ELSE 200

\* The review note reject_document reads from the request.
reject_review_note(body) ==
    IF body.kind = "json" THEN PyOr(body.review_note, body.note) ELSE NoneVal

\* Mutant: an approval keeps the note of an earlier rejection.
approve_docs_keeps_note(caller, document_id) ==
    [docs EXCEPT ![document_id].status = "approved",
                 ![document_id].reviewer_id = caller]

\* The tables as a successful approve_document commits them.
approve_docs(caller, document_id) ==
    [docs EXCEPT ![document_id].status = "approved",
                 ![document_id].review_note = NoneVal,
                 ![document_id].reviewer_id = caller]

\* Mutant: the first decision stands for the owner; approving a resolved
\* document leaves the owner as they are.
approve_users_first_decision_stands(document_id) ==
    IF docs[document_id].status # "pending" THEN users
    ELSE [users EXCEPT ![docs[document_id].user_id] = _update_user_status(@, "approved")]

approve_users(document_id) ==
    [users EXCEPT ![docs[document_id].user_id] = _update_user_status(@, "approved")]

approve_document(caller, document_id, body) ==
    LET status == approve_status(caller, document_id)
    IN /\ resp' = Response("approve", status)
       /\ docs' = IF status = 200 THEN approve_docs(caller, document_id) ELSE docs
       /\ users' = IF status = 200 THEN approve_users(document_id) ELSE users
       /\ UNCHANGED <<blobs, ledgerVars, viewVars, gatewayVars, limiter, applications>>

\* Mutant: a rejection also withdraws the waiver of the document.
reject_docs_withdraws_waiver(caller, document_id, body) ==
    [docs EXCEPT ![document_id].status = "rejected",
                 ![document_id].review_note = reject_review_note(body),
                 ![document_id].reviewer_id = caller,
                 ![document_id].waiver_acknowledged = FALSE]

\* The tables as a successful reject_document commits them.
reject_docs(caller, document_id, body) ==
    [docs EXCEPT ![document_id].status = "rejected",
                 ![document_id].review_note = reject_review_note(body),
                 ![document_id].reviewer_id = caller]

\* Mutant: a rejection sends the owner back to unverified, as
\* User.mark_unverified() would.
reject_users_marks_unverified(document_id) ==
    [users EXCEPT ![docs[document_id].user_id] = _update_user_status(@, "unverified")]

reject_users(document_id) ==
    [users EXCEPT ![docs[document_id].user_id] = _update_user_status(@, "rejected")]

reject_document(caller, document_id, body) ==
    LET status == reject_status(caller, document_id, body)
    IN /\ resp' = Response("reject", status)
       /\ docs' = IF status = 200 THEN reject_docs(caller, document_id, body) ELSE docs
       /\ users' = IF status = 200 THEN reject_users(document_id) ELSE users
       /\ UNCHANGED <<blobs, ledgerVars, viewVars, gatewayVars, limiter, applications>>

\* ---------------------------------------------------------- ledger: inputs
\* routes/billing.py and create_listing of routes/listings.py, served with
\* STRIPE_SECRET_KEY and STRIPE_WEBHOOK_SECRET configured.  A handler that
\* reads and then commits is two steps, the query and db.session.commit(),
\* so that two requests overlap; the database is the default of config.py
\* (statements of other requests are visible once committed, foreign keys are
\* not enforced, the unique index on user_id is).  Neither handler reads the
\* clock: the clock reading of a request is quantified in the properties.
\* Stripe metadata values are strings: none (key absent), text (a string
\* int() rejects) or the decimal text of an integer.
Raw(tag, val) == [tag |-> tag, val |-> val]
RawNone == Raw("none", 0)
RawText == Raw("text", 0)
RawInt(n) == Raw("int", n)

Times == 0..MaxTime
\* Clock readings a request can be served at; the last is after every period.
Clock == 0..(MaxTime + 1)
LedgerUserIds == 1..MaxLedgerUsers
LedgerRawRoles == {"employer"}
RawQuantities ==
    {RawNone, RawText, RawInt(-1)} \cup {RawInt(q) : q \in 1..MaxCredits}

\* stripe.Subscription.retrieve: no id on the event, a StripeError, or the
\* subscription object with its metadata user_id and current_period_end.
StripeSubscription(id, retrieved, user_id, current_period_end) ==
    [id |-> id, retrieved |-> retrieved, user_id |-> user_id,
     current_period_end |-> current_period_end]
NoSubscription == StripeSubscription(FALSE, FALSE, RawNone, NoTime)
BrokenSubscriptions ==
    {NoSubscription,
     StripeSubscription(TRUE, FALSE, RawNone, NoTime),
     StripeSubscription(TRUE, TRUE, RawNone, 0),
     StripeSubscription(TRUE, TRUE, RawText, 0),
     StripeSubscription(TRUE, TRUE, RawInt(1), NoTime)}
PaidSubscriptions ==
    {StripeSubscription(TRUE, TRUE, RawInt(i), t) : i \in LedgerUserIds, t \in Times}

Event(type, billing_type, user_id, quantity, subscription) ==
    [type |-> type, billing_type |-> billing_type, user_id |-> user_id,
     quantity |-> quantity, subscription |-> subscription]
Events ==
    {Event("checkout.session.completed", "listing", u, RawInt(1), NoSubscription) :
         u \in {RawNone, RawText}}
    \cup {Event("checkout.session.completed", "listing", RawInt(i), q, NoSubscription) :
              i \in LedgerUserIds, q \in RawQuantities}
    \cup {Event("checkout.session.completed", "subscription", RawNone, RawNone, s) :
              s \in BrokenSubscriptions}
    \cup {Event("invoice.paid", NoneVal, RawNone, RawNone, s) : s \in PaidSubscriptions}
    \cup {Event("checkout.session.completed", "subscription", RawNone, RawNone,
                StripeSubscription(TRUE, TRUE, RawInt(1), 0)),
          Event("invoice.paid", NoneVal, RawNone, RawNone,
                StripeSubscription(TRUE, FALSE, RawNone, NoTime)),
          Event("checkout.session.completed", "donation", RawInt(1), RawInt(1), NoSubscription),
          Event("customer.created", "listing", RawInt(1), RawInt(1), NoSubscription)}
\* The event passes the guards of the dispatch and of its handler: its type
\* and billing_type select a handler, its user_id parses, and for a
\* subscription the object is retrieved and has a period end.
Applies(event) ==
    LET paid == /\ event.subscription.id
                /\ event.subscription.retrieved
                /\ event.subscription.user_id.tag = "int"
                /\ event.subscription.current_period_end # NoTime
    IN  \/ /\ event.type = "checkout.session.completed"
           /\ \/ event.billing_type = "listing" /\ event.user_id.tag = "int"
              \/ event.billing_type = "subscription" /\ paid
        \/ event.type = "invoice.paid" /\ paid
\* The ledger specification delivers the events that apply, with a quantity
\* that is an integer text, and one event of a type that is ignored.
LedgerEvents ==
    {e \in Events : Applies(e) /\ e.quantity.tag # "text"
                                /\ (e.billing_type = "listing" => e.quantity.tag = "int")}
    \cup {e \in Events : e.type = "customer.created"}
\* <<signature_ok, event>>: a forged signature is tried with one event.
WebhookInputs ==
    {<<TRUE, e>> : e \in LedgerEvents}
    \cup {<<FALSE, Event("checkout.session.completed", "listing", RawInt(1),
                         RawInt(1), NoSubscription)>>}

ListingPayloads ==
    {Payload("jobs", TRUE), Payload("jobs", FALSE), Payload("boats", TRUE)}
CreateInputs == {<<c, p>> : c \in Callers, p \in ListingPayloads}

\* ---------------------------------------------------------- ledger: billing
EmployerSubscription(user_id, listing_credits, active_until) ==
    [user_id |-> user_id, listing_credits |-> listing_credits,
     active_until |-> active_until]

has_active_subscription(self, now) ==
    IF self.active_until = NoTime THEN FALSE ELSE self.active_until >= now

HasRow(user_id) == \E s \in subs : s.user_id = user_id
RowOf(user_id) == CHOOSE s \in subs : s.user_id = user_id

\* Mutant: a new account starts with one credit.
_get_or_create_subscription_one_credit(user_id) ==
    IF HasRow(user_id) THEN RowOf(user_id)
    ELSE EmployerSubscription(user_id, 1, NoTime)

\* The row read by the query, or a new object with zero credits.
_get_or_create_subscription(user_id) ==
    IF HasRow(user_id) THEN RowOf(user_id)
    ELSE EmployerSubscription(user_id, 0, NoTime)

PyMax(a, b) == IF a >= b THEN a ELSE b

\* Mutant: the purchased quantity is not floored at one.
_handle_listing_purchase_no_floor(metadata) ==
    LET user_id == metadata.user_id
        quantity_raw == metadata.quantity
        quantity == IF quantity_raw.tag = "int" THEN quantity_raw.val ELSE 1
        subscription == _get_or_create_subscription(user_id.val)
    IN  IF user_id.tag # "int" THEN NoWrite
        ELSE Write(IF HasRow(user_id.val) THEN "credits" ELSE "insert",
                   user_id.val,
                   subscription.listing_credits + quantity,
                   NoTime)

_handle_listing_purchase(metadata) ==
    LET user_id == metadata.user_id
        quantity_raw == metadata.quantity
        quantity == IF quantity_raw.tag = "int" THEN quantity_raw.val ELSE 1
        subscription == _get_or_create_subscription(user_id.val)
    IN  IF user_id.tag # "int" THEN NoWrite
        ELSE Write(IF HasRow(user_id.val) THEN "credits" ELSE "insert",
                   user_id.val,
                   subscription.listing_credits + PyMax(quantity, 1),
                   NoTime)

\* Mutant: the period end of the event replaces the stored one.
_set_subscription_active_overwrites(user_id, current_period_end) ==
    LET subscription == _get_or_create_subscription(user_id)
        new_expiration == current_period_end
    IN  IF current_period_end = NoTime THEN NoWrite
        ELSE IF ~HasRow(user_id)
             THEN Write("insert", user_id, 0, new_expiration)
        ELSE Write("active", user_id, 0, new_expiration)

_set_subscription_active(user_id, current_period_end) ==
    LET subscription == _get_or_create_subscription(user_id)
        new_expiration == current_period_end
        later == subscription.active_until = NoTime
                 \/ subscription.active_until < new_expiration
    IN  IF current_period_end = NoTime THEN NoWrite
        ELSE IF ~HasRow(user_id)
             THEN Write("insert", user_id, 0, new_expiration)
        ELSE IF later
             THEN Write("active", user_id, 0, new_expiration)
        ELSE NoWrite

_handle_subscription_event(subscription_obj) ==
    IF ~subscription_obj.id THEN NoWrite
    ELSE IF ~subscription_obj.retrieved THEN NoWrite
    ELSE IF subscription_obj.user_id.tag # "int" THEN NoWrite
    ELSE _set_subscription_active(subscription_obj.user_id.val,
                                  subscription_obj.current_period_end)

\* Mutant: every completed checkout is a listing purchase.
webhook_write_any_checkout_is_listing(event) ==
    IF event.type = "checkout.session.completed"
    THEN IF event.billing_type = "subscription"
         THEN _handle_subscription_event(event.subscription)
         ELSE _handle_listing_purchase(event)
    ELSE IF event.type = "invoice.paid"
         THEN _handle_subscription_event(event.subscription)
         ELSE NoWrite

\* The dispatch of billing_webhook on the event's type and billing_type.
webhook_write(event) ==
    IF event.type = "checkout.session.completed"
    THEN IF event.billing_type = "listing"
         THEN _handle_listing_purchase(event)
         ELSE IF event.billing_type = "subscription"
              THEN _handle_subscription_event(event.subscription)
              ELSE NoWrite
    ELSE IF event.type = "invoice.paid"
         THEN _handle_subscription_event(event.subscription)
         ELSE NoWrite

\* billing_webhook before the dispatch: 500 without the API key, 400 when
\* construct_event rejects the signature, 0 when the event is accepted.
\* Without a webhook secret the event is built from the JSON body and no
\* signature is looked at.
webhook_gate(signature_ok) ==
    IF ~config.STRIPE_SECRET_KEY THEN 500
    ELSE IF config.STRIPE_WEBHOOK_SECRET /\ ~signature_ok THEN 400
    ELSE 0

\* A request is taken by the first worker that is not serving one.
FirstFree(r) ==
    /\ slot[r].pc # "loaded"
    /\ \A o \in Slots : o < r => slot[o].pc = "loaded"

\* billing_webhook up to its final commit: the signature check, the dispatch
\* and the handler's query.  A request with nothing to flush is over.
billing_webhook_begin(r, signature_ok, event) ==
    LET write == webhook_write(event)
    IN  /\ FirstFree(r)
        /\ slot' = [slot EXCEPT ![r] =
               IF webhook_gate(signature_ok) # 0
               THEN Slot("done", "billing_webhook", NullId, NoWrite, NoPayload,
                         webhook_gate(signature_ok), FALSE)
               ELSE IF write.kind = "none"
               THEN Slot("done", "billing_webhook", NullId, NoWrite, NoPayload, 200, FALSE)
               ELSE Slot("loaded", "billing_webhook", NullId, write, NoPayload, 0, FALSE)]
        /\ UNCHANGED <<users, verifyVars, subs, listings, viewVars, gatewayVars, limiter, applications>>

\* The rows after db.session.commit() flushes the write: an INSERT that meets
\* the unique user_id fails, an UPDATE sets the changed column.
commit_subs(write) ==
    IF write.kind = "insert"
    THEN IF HasRow(write.user_id) THEN subs
         ELSE subs \cup {EmployerSubscription(write.user_id, write.listing_credits,
                                              write.active_until)}
    ELSE IF write.kind = "credits"
    THEN {IF s.user_id = write.user_id
          THEN [s EXCEPT !.listing_credits = write.listing_credits] ELSE s : s \in subs}
    ELSE IF write.kind = "active"
    THEN {IF s.user_id = write.user_id
          THEN [s EXCEPT !.active_until = write.active_until] ELSE s : s \in subs}
    ELSE subs

commit_status(write) ==
    IF write.kind = "insert" /\ HasRow(write.user_id) THEN 500 ELSE 200

billing_webhook_commit(r) ==
    /\ slot[r].pc = "loaded"
    /\ slot[r].op = "billing_webhook"
    /\ slot' = [slot EXCEPT ![r] =
           Slot("done", "billing_webhook", NullId, NoWrite, NoPayload,
                commit_status(slot[r].write), FALSE)]
    /\ subs' = commit_subs(slot[r].write)
    /\ UNCHANGED <<users, verifyVars, listings, viewVars, gatewayVars, limiter, applications>>

\* --------------------------------------------------------- ledger: listings
\* bool(data.get(key, True)) of a JSON true, false or null.
bool_default_true(value) == value \in {"absent", "true"}

Listing(created_by, payload) ==
    [created_by |-> created_by, category |-> payload.category,
     is_public |-> bool_default_true(payload.is_public),
     is_active |-> bool_default_true(payload.is_active),
     expires_at |-> payload.expires_at]

\* Mutant: an admin without an account is asked to pay.
create_listing_status_admin_pays(caller, payload) ==
    IF caller = 0 THEN 401
    ELSE IF users[caller].role \notin {"employer", "admin"} THEN 403
    ELSE IF users[caller].role = "admin" /\ ~HasRow(caller) THEN 402
    ELSE IF ~payload.complete \/ payload.category \notin LISTING_CATEGORIES THEN 400
    ELSE 0

\* 0 while the request goes on to insert the listing.
create_listing_status(caller, payload) ==
    IF caller = 0 THEN 401
    ELSE IF users[caller].role \notin {"employer", "admin"} THEN 403
    ELSE IF ~payload.complete \/ payload.category \notin LISTING_CATEGORIES THEN 400
    ELSE 0

\* Another request of the same employer is in flight while the account holds
\* its last credit and no subscription running at clock reading now.
LastCreditRace(r, caller) ==
    /\ users[caller].role = "employer"
    /\ HasRow(caller)
    /\ RowOf(caller).listing_credits = 1
    /\ \E now \in Clock : ~has_active_subscription(RowOf(caller), now)
    /\ \E o \in Slots \ {r} :
          slot[o].pc = "loaded" /\ slot[o].op = "create_listing" /\ slot[o].uid = caller

create_listing_begin(r, caller, payload) ==
    LET status == create_listing_status(caller, payload)
        race == status = 0 /\ LastCreditRace(r, caller)
    IN  /\ FirstFree(r)
        /\ slot' = [o \in Slots |->
               IF o = r
               THEN IF status # 0
                    THEN Slot("done", "create_listing", caller, NoWrite, NoPayload, status, FALSE)
                    ELSE Slot("loaded", "create_listing", caller, NoWrite, payload, 0, race)
               ELSE IF race THEN [slot[o] EXCEPT !.race = TRUE] ELSE slot[o]]
        /\ UNCHANGED <<users, verifyVars, subs, listings, viewVars, gatewayVars, limiter, applications>>

\* Mutant: the insert also spends a credit of the creator.
create_listing_commit_spends(r) ==
    /\ slot[r].pc = "loaded"
    /\ slot[r].op = "create_listing"
    /\ slot' = [slot EXCEPT ![r] =
           Slot("done", "create_listing", slot[r].uid, NoWrite, NoPayload, 201,
                slot[r].race)]
    /\ listings' = Append(listings, Listing(slot[r].uid, slot[r].payload))
    /\ subs' = {IF s.user_id = slot[r].uid /\ s.listing_credits > 0
                THEN [s EXCEPT !.listing_credits = @ - 1] ELSE s : s \in subs}
    /\ UNCHANGED <<users, verifyVars, viewVars, gatewayVars, limiter, applications>>

create_listing_commit(r) ==
    /\ slot[r].pc = "loaded"
    /\ slot[r].op = "create_listing"
    /\ slot' = [slot EXCEPT ![r] =
           Slot("done", "create_listing", slot[r].uid, NoWrite, NoPayload, 201,
                slot[r].race)]
    /\ listings' = Append(listings, Listing(slot[r].uid, slot[r].payload))
    /\ UNCHANGED <<users, verifyVars, subs, viewVars, gatewayVars, limiter, applications>>

\* The ledger: registrations, webhooks and create-listing requests in two
\* overlapping slots, below the bounds.
LedgerNext ==
    \/ \E in \in RegisterInputs(LedgerRawRoles) :
          /\ register_status(in[1], in[2], in[3]) = 201
          /\ Len(users) < MaxLedgerUsers
          /\ register(in[1], in[2], in[3])
    \/ \E r \in Slots, in \in WebhookInputs :
          /\ webhook_write(in[2]).listing_credits <= MaxCredits
          /\ billing_webhook_begin(r, in[1], in[2])
    \/ \E r \in Slots : billing_webhook_commit(r)
    \/ \E r \in Slots, in \in CreateInputs : create_listing_begin(r, in[1], in[2])
    \/ \E r \in Slots :
          /\ Len(listings) < MaxListings
          /\ create_listing_commit(r)

LedgerSpec == Init /\ [][LedgerNext]_vars

\* ------------------------------------------------------------------ gateway
\* billing_webhook as one request served alone, under every Stripe
\* configuration.  The handler looks no user up, so the accounts are those
\* the events name.  delivered is the history of the deliveries answered 200.
GatewayUserIds == 1..MaxGatewayUsers
PeriodEnds == 0..MaxPeriodEnd
ListingEvent(user_id, quantity) ==
    Event("checkout.session.completed", "listing", user_id, quantity, NoSubscription)
GatewayEvents ==
    {ListingEvent(RawInt(i), q) :
         i \in GatewayUserIds, q \in {RawNone} \cup {RawInt(n) : n \in 1..MaxQuantity}}
    \cup {Event("invoice.paid", NoneVal, RawNone, RawNone,
                StripeSubscription(TRUE, TRUE, RawInt(i), t)) :
              i \in GatewayUserIds, t \in PeriodEnds}
    \cup {Event("checkout.session.completed", "subscription", RawNone, RawNone,
                StripeSubscription(TRUE, TRUE, RawInt(1), MaxPeriodEnd))}
    \cup {e \in Events : ~Applies(e)}
\* <<signature_ok, event>>: a delivery without a valid signature is tried with
\* one event.
GatewayInputs ==
    {<<TRUE, e>> : e \in GatewayEvents}
    \cup {<<FALSE, ListingEvent(RawInt(1), RawInt(1))>>}

billing_webhook(signature_ok, event) ==
    LET gate == webhook_gate(signature_ok)
        write == webhook_write(event)
        status == IF gate # 0 THEN gate ELSE commit_status(write)
    IN  /\ subs' = IF gate = 0 THEN commit_subs(write) ELSE subs
        /\ hook' = Hook(status, gate = 0 /\ config.STRIPE_WEBHOOK_SECRET, event)
        /\ delivered' = IF status = 200 THEN delivered (+) SetToBag({event})
                        ELSE delivered
        /\ UNCHANGED <<users, verifyVars, listings, slot, viewVars, config, limiter, applications>>

GatewayInit ==
    \E stripe_config \in StripeConfigs : create_app(stripe_config, RATE_LIMIT_DEFAULT)

GatewayNext ==
    \E in \in GatewayInputs :
        /\ BagCardinality(delivered) < MaxDeliveries
        /\ billing_webhook(in[1], in[2])

GatewaySpec == GatewayInit /\ [][GatewayNext]_vars

\* ------------------------------------------------------- listings: reading
\* routes/listings.py: the visibility gate, list_listings and create_listing
\* as one request.  Result rows are in created_at order, newest first; ids
\* are given in creation order.
\* str.lower() on the texts the inputs use.
Lower(s) ==
    CASE s = "TRUE" -> "true"
      [] s = "False" -> "false"
      [] OTHER -> s

_str_to_bool(value) ==
    IF value = NoneVal THEN NoneVal
    ELSE IF Lower(value) \in {"1", "true", "yes", "y"} THEN "True"
    ELSE IF Lower(value) \in {"0", "false", "no", "n"} THEN "False"
    ELSE NoneVal

\* Mutant: a verified viewer who is not the owner is refused.
_can_access_listing_owner_only(listing, user) ==
    IF listing.is_public THEN TRUE
    ELSE IF user = 0 THEN FALSE
    ELSE IF users[user].role = "admin" \/ user = listing.created_by THEN TRUE
    ELSE FALSE

\* user is 0 for a request without a usable token (current_user is None).
_can_access_listing(listing, user) ==
    IF listing.is_public THEN TRUE
    ELSE IF user = 0 THEN FALSE
    ELSE IF users[user].role = "admin" \/ user = listing.created_by THEN TRUE
    ELSE users[user].is_verified

_visible_contact(listing, user) == _can_access_listing(listing, user)

\* Mutant: an unverified user is shown the public listings only.
_filter_visibility_public_only(query, user) ==
    IF user = 0 THEN {i \in query : listings[i].is_public}
    ELSE IF users[user].role = "admin" THEN query
    ELSE IF users[user].is_verified THEN query
    ELSE {i \in query : listings[i].is_public}

\* The ids the query keeps after the visibility filter.
_filter_visibility(query, user) ==
    IF user = 0 THEN {i \in query : listings[i].is_public}
    ELSE IF users[user].role = "admin" THEN query
    ELSE IF users[user].is_verified THEN query
    ELSE {i \in query : listings[i].is_public \/ listings[i].created_by = user}

active_filter(query, at) ==
    {i \in query :
        /\ listings[i].is_active
        /\ (listings[i].expires_at = NoTime \/ listings[i].expires_at >= at)}

\* Mutant: a listing that expires at this very moment counts as expired.
inactive_filter_boundary_expired(query, at) ==
    {i \in query :
        \/ ~listings[i].is_active
        \/ (listings[i].expires_at # NoTime /\ listings[i].expires_at <= at)}

inactive_filter(query, at) ==
    {i \in query :
        \/ ~listings[i].is_active
        \/ (listings[i].expires_at # NoTime /\ listings[i].expires_at < at)}

\* The ids of a set, greatest first.
RECURSIVE Descending(_)
Descending(ids) ==
    IF ids = {} THEN <<>>
    ELSE LET top == CHOOSE i \in ids : \A j \in ids : j <= i
         IN  <<top>> \o Descending(ids \ {top})

\* A serialized row: the listing's id and whether to_dict gave the contact.
Row(id, include_private) == [id |-> id, contact |-> include_private]

list_listings_status(category) ==
    IF category # NoneVal /\ category \notin LISTING_CATEGORIES THEN 400 ELSE 200

\* Mutant: rows the viewer may not see are kept with the contact masked.
list_listings_results_masking(user, category, active) ==
    LET all == 1..Len(listings)
        by_category == IF category = NoneVal THEN all
                       ELSE {i \in all : listings[i].category = category}
        active_value == IF active # NoneVal THEN _str_to_bool(active) ELSE "True"
        by_activity == IF active_value = "True" THEN active_filter(by_category, utcnow)
                       ELSE IF active_value = "False"
                            THEN inactive_filter(by_category, utcnow)
                            ELSE by_category
        ordered == Descending(by_activity)
    IN  [k \in 1..Len(ordered) |->
            Row(ordered[k], _visible_contact(listings[ordered[k]], user))]

list_listings_results(user, category, active) ==
    LET all == 1..Len(listings)
        by_category == IF category = NoneVal THEN all
                       ELSE {i \in all : listings[i].category = category}
        active_value == IF active # NoneVal THEN _str_to_bool(active) ELSE "True"
        by_activity == IF active_value = "True" THEN active_filter(by_category, utcnow)
                       ELSE IF active_value = "False"
                            THEN inactive_filter(by_category, utcnow)
                            ELSE by_category
        query == _filter_visibility(by_activity, user)
        kept == {i \in query : _can_access_listing(listings[i], user)}
        ordered == Descending(kept)
    IN  [k \in 1..Len(ordered) |->
            Row(ordered[k], _visible_contact(listings[ordered[k]], user))]

list_listings(user, category, active) ==
    /\ view' = IF list_listings_status(category) = 400
               THEN View("list_listings", 400, <<>>)
               ELSE View("list_listings", 200,
                         list_listings_results(user, category, active))
    /\ UNCHANGED <<users, verifyVars, ledgerVars, utcnow, gatewayVars, limiter, applications>>

\* Mutant: a user whose document is waiting for review is let in as well.
get_listing_status_pending_allowed(user, listing_id) ==
    IF listing_id \notin 1..Len(listings) THEN 404
    ELSE IF /\ ~_can_access_listing(listings[listing_id], user)
            /\ ~(user # 0 /\ users[user].verification_status = "pending") THEN 403
    ELSE 200

get_listing_status(user, listing_id) ==
    IF listing_id \notin 1..Len(listings) THEN 404
    ELSE IF ~_can_access_listing(listings[listing_id], user) THEN 403
    ELSE 200

get_listing(user, listing_id) ==
    LET status == get_listing_status(user, listing_id)
    IN  /\ view' = IF status = 200
                   THEN View("get_listing", 200,
                             <<Row(listing_id,
                                   _visible_contact(listings[listing_id], user))>>)
                   ELSE View("get_listing", status, <<>>)
        /\ UNCHANGED <<users, verifyVars, ledgerVars, utcnow, gatewayVars, limiter, applications>>

\* Mutant: the refusal of a role opens an empty account for the caller.
create_listing_opens_account(caller, payload) ==
    LET status == create_listing_status(caller, payload)
    IN  /\ view' = View("create_listing", IF status = 0 THEN 201 ELSE status, <<>>)
        /\ listings' = IF status = 0 THEN Append(listings, Listing(caller, payload))
                       ELSE listings
        /\ subs' = IF status = 403
                   THEN subs \cup {_get_or_create_subscription(caller)}
                   ELSE subs
        /\ UNCHANGED <<users, verifyVars, slot, utcnow, gatewayVars, limiter, applications>>

\* create_listing served as one request: the checks of create_listing_status,
\* then the insert.
create_listing(caller, payload) ==
    LET status == create_listing_status(caller, payload)
    IN  /\ view' = View("create_listing", IF status = 0 THEN 201 ELSE status, <<>>)
        /\ listings' = IF status = 0 THEN Append(listings, Listing(caller, payload))
                       ELSE listings
        /\ UNCHANGED <<users, verifyVars, subs, slot, utcnow, gatewayVars, limiter, applications>>

\* Time passes.
Tick ==
    /\ utcnow' = utcnow + 1
    /\ UNCHANGED <<users, verifyVars, ledgerVars, view, gatewayVars, limiter, applications>>

\* ---------------------------------------------------------- listings: inputs
ViewPayloads ==
    {ListingData("jobs", TRUE, "absent", "absent", NoTime),
     ListingData("jobs", TRUE, "false", "true", 0),
     ListingData("housing", TRUE, "null", "false", NoTime)}
ViewCreateInputs == {<<c, p>> : c \in Callers \ {0}, p \in ViewPayloads}
\* The latest expires_at of ViewPayloads: the clock stops one reading later.
LastExpiry == 0
\* <<user, category, active>>: every viewer with the default filter; the
\* other parameters with one viewer.
ListInputs ==
    {<<v, NoneVal, NoneVal>> : v \in Callers}
    \cup {<<Len(users), NoneVal, "False">>, <<0, "housing", "maybe">>,
          <<0, "boats", NoneVal>>, <<0, NoneVal, "TRUE">>}
ViewRawRoles == {"employer", "admin"}
ViewUploads == {<<c, File("visa", "pdf", 8), "true">> : c \in Callers \ {0}}

\* Listings are read while users register, are verified and post listings,
\* and time passes; of the writes only requests that succeed are taken here.
ViewNext ==
    \/ \E in \in RegisterInputs(ViewRawRoles) :
          /\ register_status(in[1], in[2], in[3]) = 201
          /\ Len(users) < MaxUsers
          /\ register(in[1], in[2], in[3])
    \/ \E in \in ViewUploads :
          /\ upload_status(in[1], in[2], in[3]) = 201
          /\ Len(docs) < MaxDocs
          /\ upload_document(in[1], in[2], in[3], TRUE)
    \/ \E c \in Callers, d \in DocIds :
          /\ approve_status(c, d) = 200
          /\ approve_document(c, d, Body("empty", NoneVal, NoneVal))
    \/ \E in \in ViewCreateInputs :
          /\ create_listing_status(in[1], in[2]) = 0
          /\ Len(listings) < MaxViewListings
          /\ create_listing(in[1], in[2])
    \/ utcnow <= LastExpiry /\ Tick
    \/ \E in \in ListInputs : list_listings(in[1], in[2], in[3])

ViewSpec == Init /\ [][ViewNext]_vars

\* Single listings are fetched while users register, are verified or rejected
\* and post public and private listings.
AccessPayloads ==
    {ListingData("jobs", TRUE, "absent", "absent", NoTime),
     ListingData("jobs", TRUE, "false", "absent", NoTime)}
AccessNext ==
    \/ \E in \in RegisterInputs(ALLOWED_ROLES) :
          /\ register_status(in[1], in[2], in[3]) = 201
          /\ Len(users) < MaxUsers
          /\ register(in[1], in[2], in[3])
    \/ \E in \in ViewUploads :
          /\ upload_status(in[1], in[2], in[3]) = 201
          /\ Len(docs) < MaxDocs
          /\ upload_document(in[1], in[2], in[3], TRUE)
    \/ \E c \in Callers, d \in DocIds :
          /\ approve_status(c, d) = 200
          /\ approve_document(c, d, Body("empty", NoneVal, NoneVal))
    \/ \E c \in Callers, d \in DocIds :
          /\ reject_status(c, d, Body("empty", NoneVal, NoneVal)) = 200
          /\ reject_document(c, d, Body("empty", NoneVal, NoneVal))
    \/ \E c \in Callers \ {0}, p \in AccessPayloads :
          /\ create_listing_status(c, p) = 0
          /\ Len(listings) < MaxViewListings
          /\ create_listing(c, p)
    \/ \E v \in Callers, i \in 1..(MaxViewListings + 1) : get_listing(v, i)

AccessSpec == Init /\ [][AccessNext]_vars

\* ------------------------------------------------------ listings: applying
\* routes/listings.py: apply_to_listing.  The checks and the query for an
\* earlier application are one step, the insert and its commit another, so
\* that two requests overlap; the applications table has no unique index.
Application(user_id, listing_id) == [user_id |-> user_id, listing_id |-> listing_id]

ApplySlot(pc, uid, listing_id, status) ==
    [pc |-> pc, op |-> "apply_to_listing", uid |-> uid, write |-> NoWrite,
     payload |-> NoPayload, status |-> status, race |-> FALSE,
     listing_id |-> listing_id]

\* The message of the body after strip(): "" when it is missing or blank.
apply_message(message) == IF message \in {NoneVal, "", " "} THEN "" ELSE message

\* 0 while the request goes on to insert the application.
apply_to_listing_status(caller, listing_id, message) ==
    IF caller = 0 THEN 401
    ELSE IF listing_id \notin 1..Len(listings) THEN 404
    ELSE IF users[caller].role \notin {"worker", "user"} THEN 403
    ELSE IF ~_can_access_listing(listings[listing_id], caller) THEN 403
    ELSE IF \/ ~listings[listing_id].is_active
            \/ /\ listings[listing_id].expires_at # NoTime
               /\ listings[listing_id].expires_at < utcnow THEN 400
    ELSE IF apply_message(message) = "" THEN 400
    ELSE IF \E k \in 1..Len(applications) :
               applications[k] = Application(caller, listing_id) THEN 400
    ELSE 0

apply_to_listing_begin(r, caller, listing_id, message) ==
    LET status == apply_to_listing_status(caller, listing_id, message)
    IN  /\ FirstFree(r)
        /\ slot' = [slot EXCEPT ![r] =
               IF status # 0 THEN ApplySlot("done", caller, listing_id, status)
               ELSE ApplySlot("loaded", caller, listing_id, 0)]
        /\ UNCHANGED <<users, verifyVars, subs, listings, viewVars, gatewayVars,
                       limiter, applications>>

apply_to_listing_commit(r) ==
    /\ slot[r].pc = "loaded"
    /\ slot[r].op = "apply_to_listing"
    /\ applications' = Append(applications, Application(slot[r].uid, slot[r].listing_id))
    /\ slot' = [slot EXCEPT ![r] = ApplySlot("done", slot[r].uid, slot[r].listing_id, 201)]
    /\ UNCHANGED <<users, verifyVars, subs, listings, viewVars, gatewayVars, limiter>>

ApplyRawRoles == {"worker", "admin"}
ApplyPayloads ==
    {ListingData("jobs", TRUE, "absent", "absent", NoTime),
     ListingData("jobs", TRUE, "absent", "false", NoTime)}
ApplyMessages == {"hello", " "}

ApplyNext ==
    \/ \E in \in RegisterInputs(ApplyRawRoles) :
          /\ register_status(in[1], in[2], in[3]) = 201
          /\ Len(users) < ApplyUsers
          /\ register(in[1], in[2], in[3])
    \/ \E c \in Callers \ {0}, p \in ApplyPayloads :
          /\ create_listing_status(c, p) = 0
          /\ Len(listings) < ApplyListings
          /\ create_listing(c, p)
    \/ \E r \in Slots, c \in Callers, i \in 1..(ApplyListings + 1),
          message \in ApplyMessages :
          apply_to_listing_begin(r, c, i, message)
    \/ \E r \in Slots :
          /\ Len(applications) < MaxApplications
          /\ apply_to_listing_commit(r)

ApplySpec == Init /\ [][ApplyNext]_vars

\* ------------------------------------------------------ listings: updating
\* routes/listings.py: update_listing.  The JSON body names the fields it
\* changes: category is "absent" or a text; is_public and is_active are
\* "absent", true, false, null or the text 'false'; expires_at is AbsentTime,
\* NoTime for null or an empty text, BadTime for a text that does not parse,
\* or the parsed time; created_by is NullId when absent.
AbsentTime == -2
BadTime == -3
UpdateData(category, is_public, is_active, expires_at, created_by) ==
    [category |-> category, is_public |-> is_public, is_active |-> is_active,
     expires_at |-> expires_at, created_by |-> created_by]
NoUpdate == UpdateData("absent", "absent", "absent", AbsentTime, NullId)

\* Python bool() of a JSON value.
bool(value) == value \in {"true", "'false'"}

update_listing_status(caller, listing_id, data) ==
    IF caller = 0 THEN 401
    ELSE IF listing_id \notin 1..Len(listings) THEN 404
    ELSE IF users[caller].role # "admin" /\ listings[listing_id].created_by # caller
         THEN 403
    ELSE IF data.created_by # NullId THEN 400
    ELSE IF data.category # "absent" /\ data.category \notin LISTING_CATEGORIES THEN 400
    ELSE IF data.expires_at = BadTime THEN 400
    ELSE 200

\* The row as the assignments of update_listing leave it.
update_listing_row(listing, data) ==
    [listing EXCEPT
        !.category = IF data.category # "absent" THEN data.category ELSE @,
        !.is_public = IF data.is_public # "absent" THEN bool(data.is_public) ELSE @,
        !.is_active = IF data.is_active # "absent" THEN bool(data.is_active) ELSE @,
        !.expires_at = IF data.expires_at # AbsentTime THEN data.expires_at ELSE @]

\* Mutant: created_by is an updatable field.
update_listing_reassigns(caller, listing_id, data) ==
    LET status == update_listing_status(caller, listing_id,
                                        [data EXCEPT !.created_by = NullId])
        row == update_listing_row(listings[listing_id], data)
    IN  /\ listings' = IF status = 200
                       THEN [listings EXCEPT ![listing_id] =
                                [row EXCEPT !.created_by =
                                    IF data.created_by # NullId
                                    THEN data.created_by ELSE @]]
                       ELSE listings
        /\ view' = View("update_listing", status,
                        IF status = 200 THEN <<Row(listing_id, TRUE)>> ELSE <<>>)
        /\ UNCHANGED <<users, verifyVars, subs, slot, utcnow, gatewayVars, limiter, applications>>

\* Nothing is committed unless every check has passed.
update_listing(caller, listing_id, data) ==
    LET status == update_listing_status(caller, listing_id, data)
    IN  /\ listings' = IF status = 200
                       THEN [listings EXCEPT ![listing_id] =
                                update_listing_row(listings[listing_id], data)]
                       ELSE listings
        /\ view' = View("update_listing", status,
                        IF status = 200 THEN <<Row(listing_id, TRUE)>> ELSE <<>>)
        /\ UNCHANGED <<users, verifyVars, subs, slot, utcnow, gatewayVars, limiter, applications>>

UpdateRawRoles == {"employer", "admin"}
UpdatePayloads == {ListingData("jobs", TRUE, "absent", "absent", NoTime)}
UpdateDatas ==
    {NoUpdate,
     [NoUpdate EXCEPT !.category = "housing"],
     [NoUpdate EXCEPT !.category = "boats", !.is_public = "false"],
     [NoUpdate EXCEPT !.is_public = "false"],
     [NoUpdate EXCEPT !.is_active = "null", !.expires_at = 0],
     [NoUpdate EXCEPT !.is_active = "'false'", !.expires_at = NoTime],
     [NoUpdate EXCEPT !.category = "rides", !.expires_at = BadTime]}
    \cup {[NoUpdate EXCEPT !.created_by = u, !.is_public = "false"] : u \in 1..Len(users)}

UpdateNext ==
    \/ \E in \in RegisterInputs(UpdateRawRoles) :
          /\ register_status(in[1], in[2], in[3]) = 201
          /\ Len(users) < UpdateUsers
          /\ register(in[1], in[2], in[3])
    \/ \E c \in Callers \ {0}, p \in UpdatePayloads :
          /\ create_listing_status(c, p) = 0
          /\ Len(listings) < MaxUpdateListings
          /\ create_listing(c, p)
    \/ \E c \in Callers, i \in 1..(MaxUpdateListings + 1), data \in UpdateDatas :
          update_listing(c, i, data)

UpdateSpec == Init /\ [][UpdateNext]_vars

\* ------------------------------------------------------------ user helpers
\* models/user.py: the helpers of User, called on a stored user and committed
\* as test_user_verification_helpers does.
mark_verified(user_id) ==
    /\ users' = [users EXCEPT ![user_id].is_verified = TRUE,
                              ![user_id].verification_status = "approved"]
    /\ UNCHANGED <<verifyVars, ledgerVars, viewVars, gatewayVars, limiter, applications>>

mark_unverified(user_id, note) ==
    /\ users' = [users EXCEPT ![user_id].is_verified = FALSE,
                              ![user_id].verification_status = PyOr(note, "unverified")]
    /\ UNCHANGED <<verifyVars, ledgerVars, viewVars, gatewayVars, limiter, applications>>

HelperNotes == {NoneVal, "", "awaiting documents"}

HelperNext ==
    \/ \E in \in RegisterInputs(VerifyRawRoles) :
          /\ register_status(in[1], in[2], in[3]) = 201
          /\ Len(users) < MaxUsers
          /\ register(in[1], in[2], in[3])
    \/ \E in \in ViewUploads :
          /\ upload_status(in[1], in[2], in[3]) = 201
          /\ Len(docs) < MaxDocs
          /\ upload_document(in[1], in[2], in[3], TRUE)
    \/ \E c \in Callers, d \in 1..Len(docs) :
          /\ approve_status(c, d) = 200
          /\ approve_document(c, d, Body("empty", NoneVal, NoneVal))
    \/ \E c \in Callers, d \in 1..Len(docs) :
          /\ reject_status(c, d, Body("empty", NoneVal, NoneVal)) = 200
          /\ reject_document(c, d, Body("empty", NoneVal, NoneVal))
    \/ \E u \in 1..Len(users) : mark_verified(u)
    \/ \E u \in 1..Len(users), note \in HelperNotes : mark_unverified(u, note)

HelperSpec == Init /\ [][HelperNext]_vars

\* ------------------------------------------------------- listings: grants
\* A private listing is fetched while its readers are verified, rejected and
\* submit again.
GrantRawRoles == {"worker", "admin"}
GrantPayloads == {ListingData("jobs", TRUE, "false", "absent", NoTime)}
GrantNext ==
    \/ \E in \in RegisterInputs(GrantRawRoles) :
          /\ register_status(in[1], in[2], in[3]) = 201
          /\ Len(users) < GrantUsers
          /\ register(in[1], in[2], in[3])
    \/ \E in \in ViewUploads :
          /\ upload_status(in[1], in[2], in[3]) = 201
          /\ Len(docs) < MaxGrantDocs
          /\ upload_document(in[1], in[2], in[3], TRUE)
    \/ \E c \in Callers, d \in 1..Len(docs) :
          /\ approve_status(c, d) = 200
          /\ approve_document(c, d, Body("empty", NoneVal, NoneVal))
    \/ \E c \in Callers, d \in 1..Len(docs) :
          /\ reject_status(c, d, Body("empty", NoneVal, NoneVal)) = 200
          /\ reject_document(c, d, Body("empty", NoneVal, NoneVal))
    \/ \E c \in Callers \ {0}, p \in GrantPayloads :
          /\ create_listing_status(c, p) = 0
          /\ Len(listings) < GrantListings
          /\ create_listing(c, p)
    \/ \E v \in Callers, i \in 1..GrantListings : get_listing(v, i)

GrantSpec == Init /\ [][GrantNext]_vars

\* ------------------------------------------------------ listings: creating
\* Registration under every role, webhooks that open and fill accounts, and
\* create_listing as one request.
CreateEvents ==
    {ListingEvent(RawInt(i), RawInt(1)) : i \in 1..Len(users)}
    \cup {Event("invoice.paid", NoneVal, RawNone, RawNone,
                StripeSubscription(TRUE, TRUE, RawInt(i), 0)) : i \in 1..Len(users)}

CreateNext ==
    \/ \E in \in RegisterInputs(ALLOWED_ROLES) :
          /\ register_status(in[1], in[2], in[3]) = 201
          /\ Len(users) < MaxCreateUsers
          /\ register(in[1], in[2], in[3])
    \/ \E event \in CreateEvents :
          /\ BagCardinality(delivered) < MaxCreateDeliveries
          /\ billing_webhook(TRUE, event)
    \/ \E in \in CreateInputs :
          /\ create_listing_status(in[1], in[2]) = 0 => Len(listings) < MaxViewListings
          /\ create_listing(in[1], in[2])

CreateSpec == Init /\ [][CreateNext]_vars

\* --------------------------------------------------------------- the queue
\* routes/verify.py: the two reads.  Documents are created one after another,
\* so created_at order is id order.
RECURSIVE Ascending(_)
Ascending(ids) ==
    IF ids = {} THEN <<>>
    ELSE LET first == CHOOSE i \in ids : \A j \in ids : i <= j
         IN  <<first>> \o Ascending(ids \ {first})

_serialize_pending_document(id) == [id |-> id, user_id |-> docs[id].user_id]

\* Mutant: the newest pending document comes first.
list_pending_documents_newest_first(caller) ==
    LET status == _require_admin(caller)
        pending_documents ==
            Descending({i \in 1..Len(docs) : docs[i].status = "pending"})
    IN  /\ view' = View("list_pending_documents", status,
                        IF status = 200
                        THEN [k \in 1..Len(pending_documents) |->
                                 _serialize_pending_document(pending_documents[k])]
                        ELSE <<>>)
        /\ UNCHANGED <<users, verifyVars, ledgerVars, utcnow, gatewayVars, limiter, applications>>

list_pending_documents(caller) ==
    LET status == _require_admin(caller)
        pending_documents ==
            Ascending({i \in 1..Len(docs) : docs[i].status = "pending"})
    IN  /\ view' = View("list_pending_documents", status,
                        IF status = 200
                        THEN [k \in 1..Len(pending_documents) |->
                                 _serialize_pending_document(pending_documents[k])]
                        ELSE <<>>)
        /\ UNCHANGED <<users, verifyVars, ledgerVars, utcnow, gatewayVars, limiter, applications>>

\* models/visa_document.py: to_dict.
VisaDocument_to_dict(id) ==
    [id |-> id, user_id |-> docs[id].user_id, status |-> docs[id].status,
     reviewer_id |-> docs[id].reviewer_id, review_note |-> docs[id].review_note]

\* The latest_document of the answer is a tuple: empty for None, else the one
\* serialised document.
_require_user(caller) ==
    IF caller = 0 THEN 401
    ELSE IF caller > Len(users) THEN 404
    ELSE 200

\* Mutant: the latest document of all, whoever owns it.
verification_status_any_owner(caller) ==
    LET status == _require_user(caller)
        mine == 1..Len(docs)
        latest_document ==
            IF mine = {} THEN <<>> ELSE <<VisaDocument_to_dict(Descending(mine)[1])>>
    IN  /\ view' = View("verification_status", status,
                        IF status = 200
                        THEN <<[verification_status |-> users[caller].verification_status,
                                latest_document |-> latest_document]>>
                        ELSE <<>>)
        /\ UNCHANGED <<users, verifyVars, ledgerVars, utcnow, gatewayVars, limiter, applications>>

verification_status(caller) ==
    LET status == _require_user(caller)
        mine == {i \in 1..Len(docs) : docs[i].user_id = caller}
        latest_document ==
            IF mine = {} THEN <<>> ELSE <<VisaDocument_to_dict(Descending(mine)[1])>>
    IN  /\ view' = View("verification_status", status,
                        IF status = 200
                        THEN <<[verification_status |-> users[caller].verification_status,
                                latest_document |-> latest_document]>>
                        ELSE <<>>)
        /\ UNCHANGED <<users, verifyVars, ledgerVars, utcnow, gatewayVars, limiter, applications>>

\* Users submit, admins review, and both read.
QueueRawRoles == {"worker", "admin"}
QueueUploads == {<<c, File("visa", "pdf", 8), "true">> : c \in Callers \ {0}}

QueueNext ==
    \/ \E in \in RegisterInputs(QueueRawRoles) :
          /\ register_status(in[1], in[2], in[3]) = 201
          /\ Len(users) < QueueUsers
          /\ register(in[1], in[2], in[3])
    \/ \E in \in QueueUploads :
          /\ Len(docs) < MaxQueueDocs
          /\ upload_document(in[1], in[2], in[3], TRUE)
    \/ \E c \in Callers, d \in 1..Len(docs) :
          /\ approve_status(c, d) = 200
          /\ approve_document(c, d, Body("empty", NoneVal, NoneVal))
    \/ \E c \in Callers, d \in 1..Len(docs) :
          /\ reject_status(c, d, Body("empty", NoneVal, NoneVal)) = 200
          /\ reject_document(c, d, Body("empty", NoneVal, NoneVal))
    \/ \E c \in Callers : list_pending_documents(c)
    \/ \E c \in Callers : verification_status(c)

QueueSpec == Init /\ [][QueueNext]_vars

\* -------------------------------------------------------------- rate limit
\* app.py: _check_rate_limit runs before every request, ahead of
\* _assign_request_id, so a refused request has no request id of its own yet
\* and _handle_http_exception gives it a fresh one.  The other
\* specifications take their requests within the limit.
\* Mutant: the request that reaches the limit is refused already.
_check_rate_limit_one_short(key) ==
    LET bucket == limiter._buckets[key]
        fresh == bucket = NoBucket \/ utcnow - bucket.start >= limiter._window_seconds
        start == IF fresh THEN utcnow ELSE bucket.start
        count == (IF fresh THEN 0 ELSE bucket.count) + 1
    IN  [_buckets |-> [limiter._buckets EXCEPT ![key] = [start |-> start, count |-> count]],
         raises |-> count >= limiter._max_requests]

_check_rate_limit(key) ==
    LET bucket == limiter._buckets[key]
        fresh == bucket = NoBucket \/ utcnow - bucket.start >= limiter._window_seconds
        start == IF fresh THEN utcnow ELSE bucket.start
        count == (IF fresh THEN 0 ELSE bucket.count) + 1
    IN  [_buckets |-> [limiter._buckets EXCEPT ![key] = [start |-> start, count |-> count]],
         raises |-> count > limiter._max_requests]

_handle_http_exception(status, name, detail, request_id) ==
    View("health_check", status,
         <<[error |-> name, detail |-> detail, request_id |-> PyOr(request_id, "uuid4")]>>)

\* GET /health from remote_addr with the header X-Request-ID.
health_check(remote_addr, x_request_id) ==
    LET checked == IF limiter.installed
                   THEN _check_rate_limit(get_remote_address(remote_addr))
                   ELSE [_buckets |-> limiter._buckets, raises |-> FALSE]
    IN  /\ limiter' = [limiter EXCEPT !._buckets = checked._buckets]
        /\ view' = IF checked.raises
                   THEN _handle_http_exception(429, "Too Many Requests",
                                               "Rate limit exceeded", NoneVal)
                   ELSE View("health_check", 200,
                             <<[status |-> "ok",
                                request_id |-> PyOr(x_request_id, "uuid4")]>>)
        /\ UNCHANGED <<users, verifyVars, ledgerVars, utcnow, gatewayVars, applications>>

RateLimits ==
    {RateLimit(TRUE, n, unit) : n \in 1..2, unit \in {"second", "minute"}}
    \cup {RateLimit(FALSE, 0, "minute")}
HealthInputs == {<<"10.0.0.1", NoneVal>>, <<"10.0.0.2", "rid-1">>}

LimitInit == \E rate_limit \in RateLimits : create_app(StripeConfig(TRUE, TRUE), rate_limit)

LimitNext ==
    \/ \E in \in HealthInputs :
          /\ \A key \in LimiterKeys : limiter._buckets[key].count < MaxRequests
          /\ health_check(in[1], in[2])
    \/ utcnow < MaxClock /\ Tick

LimitSpec == LimitInit /\ [][LimitNext]_vars

\* ------------------------------------------------------------- submission
\* Valid uploads with a storage that works or fails, and the reviews that
\* take the owner through every verification status.
SubmitRawRoles == {"worker", "admin"}
SubmitWaivers == {"true", " TRUE "}
SubmitInputs ==
    {<<c, File("visa", "pdf", 8), w, saved>> :
         c \in 1..Len(users), w \in SubmitWaivers, saved \in BOOLEAN}
    \cup {<<c, f, "true", TRUE>> :
              c \in 1..Len(users),
              f \in BadFiles \cup {File("visa", "PDF", MAX_UPLOAD_SIZE_DEFAULT)}}

SubmitNext ==
    \/ \E in \in RegisterInputs(SubmitRawRoles) :
          /\ register_status(in[1], in[2], in[3]) = 201
          /\ Len(users) < MaxSubmitUsers
          /\ register(in[1], in[2], in[3])
    \/ \E in \in SubmitInputs :
          /\ Len(docs) < MaxSubmitDocs
          /\ upload_document(in[1], in[2], in[3], in[4])
    \/ \E c \in Callers, d \in 1..Len(docs) :
          /\ approve_status(c, d) = 200
          /\ approve_document(c, d, Body("empty", NoneVal, NoneVal))
    \/ \E c \in Callers, d \in 1..Len(docs) :
          /\ reject_status(c, d, Body("empty", NoneVal, NoneVal)) = 200
          /\ reject_document(c, d, Body("empty", NoneVal, NoneVal))

SubmitSpec == Init /\ [][SubmitNext]_vars

\* The verification workflow; the tables grow only while they are below the
\* bounds.
Next ==
    \/ \E in \in RegisterInputs(VerifyRawRoles) :
          /\ register_status(in[1], in[2], in[3]) = 201 => Len(users) < MaxUsers
          /\ register(in[1], in[2], in[3])
    \/ \E in \in UploadInputs :
          /\ upload_status(in[1], in[2], in[3]) = 201 => Len(docs) < MaxDocs
          /\ upload_document(in[1], in[2], in[3], TRUE)
    \/ \E in \in ReviewInputs(ApproveBodies) : approve_document(in[1], in[2], in[3])
    \/ \E in \in ReviewInputs(Bodies) : reject_document(in[1], in[2], in[3])

Spec == Init /\ [][Next]_vars

\* ================================================================== claims
UserIds == 1..Len(users)
StatusOf(i) == users[i].verification_status

C20_StorageFailureFailsWhole ==
    [][/\ \A c \in UserIds, f \in GoodFiles, w \in SubmitWaivers :
             upload_document(c, f, w, FALSE)
             => /\ resp'.status = 500
                /\ docs' = docs
                /\ users' = users
       /\ \A i \in 1..Len(docs') : docs'[i].file_path \in 1..blobs']_vars

\* A storage failure has been answered while a user is verified by an earlier
\* document: the user is still verified and every record has its file.
C20_Witness ==
    /\ resp = Response("upload", 500)
    /\ Len(docs) = blobs
    /\ \E u \in UserIds : users[u].is_verified /\ users[u].role # "admin"

\* ---- the queue (C22, C23)
Writes == <<users, docs, blobs, subs, listings>>
\* listPending of the specification: the pending documents, oldest first.
RECURSIVE OldestFirst(_, _)
OldestFirst(from, rows) ==
    IF from > Len(docs) THEN rows
    ELSE OldestFirst(from + 1,
                     IF docs[from].status = "pending"
                     THEN Append(rows, [id |-> from, user_id |-> docs[from].user_id])
                     ELSE rows)

\* C22: for an admin list_pending_documents answers with exactly the
\* documents that are pending at the call, oldest first; a registered caller
\* who is not an admin is answered 403 without any document; the call changes
\* no stored state.
C22_ListPendingExact ==
    [][\A c \in Callers :
          list_pending_documents(c)
          => /\ Writes' = Writes
             /\ (c # 0 /\ users[c].role = "admin")
                  => view' = View("list_pending_documents", 200, OldestFirst(1, <<>>))
             /\ (c # 0 /\ users[c].role # "admin")
                  => view' = View("list_pending_documents", 403, <<>>)]_vars

\* The admin has been shown two pending documents, the older one first.
C22_Witness ==
    /\ view.op = "list_pending_documents"
    /\ view.status = 200
    /\ Len(view.results) = 2
    /\ view.results[1].id < view.results[2].id

DocsOf(u) == {i \in 1..Len(docs) : docs[i].user_id = u}

\* C23: verification_status answers a registered caller with the caller's own
\* verification status and the caller's document created last (none when the
\* caller has no document), never a document of another user, and changes no
\* stored state.
C23_StatusShowsOwnLatest ==
    [][\A c \in Callers \ {0} :
          verification_status(c)
          => /\ Writes' = Writes
             /\ view'.op = "verification_status"
             /\ view'.status = 200
             /\ view'.results[1].verification_status = users[c].verification_status
             /\ LET latest == view'.results[1].latest_document
                IN  /\ DocsOf(c) = {} <=> latest = <<>>
                    /\ \A k \in 1..Len(latest) :
                          /\ latest[k].id \in DocsOf(c)
                          /\ \A i \in DocsOf(c) : i <= latest[k].id
                          /\ latest[k].user_id = c
                          /\ latest[k].status = docs[latest[k].id].status]_vars

\* A user has been shown their own document although another user's document
\* is newer.
C23_Witness ==
    /\ view.op = "verification_status"
    /\ view.status = 200
    /\ view.results[1].latest_document # <<>>
    /\ \E d \in 1..Len(docs) :
          /\ d > view.results[1].latest_document[1].id
          /\ docs[d].user_id # view.results[1].latest_document[1].user_id

LatestOf(u) == CHOOSE i \in DocsOf(u) : \A j \in DocsOf(u) : j <= i

\* C26: in every reachable state a user who owns a document has the
\* verification status that is the status of their document created last.
C26_StatusFollowsLatest ==
    \A u \in 1..Len(users) :
        DocsOf(u) # {} => users[u].verification_status = docs[LatestOf(u)].status

Decision(doc) == <<doc.status, doc.reviewer_id, doc.review_note>>

\* C27 as stated: a document's owner, waiver and creation stay as created,
\* and its status, reviewer and note are written by at most one resolve: a
\* resolved document is not written again.
C27_ResolvedOnce ==
    [][\A d \in 1..Len(docs) :
          /\ docs'[d].user_id = docs[d].user_id
          /\ docs'[d].waiver_acknowledged = docs[d].waiver_acknowledged
          /\ docs'[d].file_path = docs[d].file_path
          /\ docs[d].status # "pending" => Decision(docs'[d]) = Decision(docs[d])]_vars

\* C27 amended: no document is ever removed; a document's owner, waiver and
\* creation stay as created; its status, reviewer and note are written only
\* by a successful approve or reject, which writes the decision and the
\* reviewer, as often as the document is resolved.
C27_OnlyResolveWrites ==
    [][/\ Len(docs') >= Len(docs)
       /\ \A d \in 1..Len(docs) :
             /\ docs'[d].user_id = docs[d].user_id
             /\ docs'[d].waiver_acknowledged = docs[d].waiver_acknowledged
             /\ docs'[d].file_path = docs[d].file_path
             /\ Decision(docs'[d]) # Decision(docs[d])
                  => /\ resp'.status = 200
                     /\ \/ resp'.op = "approve" /\ docs'[d].status = "approved"
                        \/ resp'.op = "reject" /\ docs'[d].status = "rejected"
                     /\ docs'[d].reviewer_id \in 1..Len(users)
                     /\ users[docs'[d].reviewer_id].role = "admin"]_vars

\* A document has been rejected by an admin who is not its owner, next to
\* another document, and still has its owner and its waiver.
C27_Witness ==
    /\ Len(docs) = 2
    /\ \E d \in 1..Len(docs) :
          /\ docs[d].status = "rejected"
          /\ docs[d].reviewer_id # docs[d].user_id
          /\ docs[d].waiver_acknowledged
          /\ docs[3 - d].status = "pending"

\* ---- rate limit (C25)
\* The requests the key has made in the running window, none when the window
\* is over.
InWindow(key) ==
    IF /\ limiter._buckets[key] # NoBucket
       /\ utcnow - limiter._buckets[key].start < limiter._window_seconds
    THEN limiter._buckets[key].count
    ELSE 0

\* C25: under a limit of N requests per window, a request of a key that has
\* made N or more requests in the running window is answered 429 with the
\* JSON error Too Many Requests and a request id; a request within the limit,
\* or the first one after the window has elapsed, is answered 200.
C25_LimitPerWindow ==
    [][\A in \in HealthInputs :
          (limiter.installed /\ health_check(in[1], in[2]))
          => LET made == InWindow(get_remote_address(in[1]))
             IN  IF made >= limiter._max_requests
                 THEN /\ view'.status = 429
                      /\ view'.results[1].error = "Too Many Requests"
                      /\ view'.results[1].request_id # NoneVal
                 ELSE /\ view'.status = 200
                      /\ InWindow(get_remote_address(in[1]))' = made + 1]_vars

\* The request after the limit was refused, later in the same window.
C25_Witness ==
    /\ view.op = "health_check"
    /\ view.status = 429
    /\ \E key \in LimiterKeys :
          /\ limiter._buckets[key].count = limiter._max_requests + 1
          /\ utcnow > limiter._buckets[key].start
          /\ limiter._window_seconds = 60

\* ---- C21
\* The error kinds of the specification as werkzeug exceptions.
ErrorKind(kind) ==
    CASE kind = "ValidationError" -> "BadRequest"
      [] kind = "UnsupportedMediaType" -> "UnsupportedMediaType"
      [] kind = "PayloadTooLarge" -> "RequestEntityTooLarge"
NoFileAttached(file) == ~file.present \/ file.filename = ""
TypeNotAllowed(file) ==
    ~NoFileAttached(file) /\ StripLower(file.ext) \notin _allowed_extensions
TooLarge(file) ==
    /\ ~NoFileAttached(file) /\ ~TypeNotAllowed(file)
    /\ file.size > MAX_UPLOAD_SIZE_DEFAULT
\* A refused upload adds no document, stores no file and changes no user, and
\* a file of exactly the maximum size is accepted.
RefusedSubmitChangesNothing ==
    [][\A c \in UserIds, f \in Files, w \in SubmitWaivers, saved \in BOOLEAN :
          upload_document(c, f, w, saved)
          => /\ f \in BadFiles
                  => /\ resp'.status = 400
                     /\ docs' = docs /\ blobs' = blobs /\ users' = users
             /\ (f.size = MAX_UPLOAD_SIZE_DEFAULT /\ saved) => resp'.status = 201]_vars

\* C21: an upload without a file is a ValidationError, one with a type that
\* is not allowed an UnsupportedMediaType, one above the maximum size a
\* PayloadTooLarge; each adds no document, stores no file and changes no
\* user, and a file of exactly the maximum size is accepted.
C21_ErrorKindsAsSpecified ==
    /\ [](\A c \in UserIds, f \in Files, w \in SubmitWaivers :
            /\ NoFileAttached(f) => upload_error(c, f, w) = ErrorKind("ValidationError")
            /\ TypeNotAllowed(f) => upload_error(c, f, w) = ErrorKind("UnsupportedMediaType")
            /\ TooLarge(f) => upload_error(c, f, w) = ErrorKind("PayloadTooLarge"))
    /\ RefusedSubmitChangesNothing

\* C21 as amended: all three refusals are the same BadRequest (400).
C21_RefusalsAreBadRequests ==
    /\ [](\A c \in UserIds, f \in Files, w \in SubmitWaivers :
            (NoFileAttached(f) \/ TypeNotAllowed(f) \/ TooLarge(f))
            <=> upload_error(c, f, w) = "BadRequest")
    /\ RefusedSubmitChangesNothing

\* An upload has been refused while a document is stored and its owner
\* approved: the document, its file and the owner are as they were.
C21_Witness ==
    /\ resp = Response("upload", 400)
    /\ Len(docs) = 1
    /\ blobs = 1
    /\ docs[1].status = "approved"
    /\ StatusOf(docs[1].user_id) = "approved"

\* ---- creating listings (C17, C18)
ValidPayload(payload) ==
    payload.complete /\ payload.category \in LISTING_CATEGORIES

\* C17: a create-listing request of an admin is never refused for billing,
\* whatever account the admin has or lacks: a valid payload is answered 201
\* and inserted, an invalid one 400, and no account changes.
C17_AdminCreatesFreely ==
    [][\A a \in UserIds, p \in ListingPayloads :
          (users[a].role = "admin" /\ create_listing(a, p))
          => /\ subs' = subs
             /\ ValidPayload(p)
                  => /\ view'.status = 201
                     /\ listings' = Append(listings, Listing(a, p))
             /\ ~ValidPayload(p) => view'.status = 400 /\ listings' = listings]_vars

\* A listing was created by an admin who has no account, while another user
\* has one.
C17_Witness ==
    /\ view = View("create_listing", 201, <<>>)
    /\ subs # {}
    /\ \E i \in 1..Len(listings) :
          /\ users[listings[i].created_by].role = "admin"
          /\ ~HasRow(listings[i].created_by)

\* C18: a create-listing request of a registered user who is neither employer
\* nor admin is answered 403 whatever the payload, inserts no listing and
\* creates or changes no account.
C18_OtherRolesRefused ==
    [][\A w \in UserIds, p \in ListingPayloads :
          (users[w].role \notin {"employer", "admin"} /\ create_listing(w, p))
          => /\ view'.status = 403
             /\ listings' = listings
             /\ subs' = subs]_vars

\* A worker who holds a credit has been refused, and no listing exists.
C18_Witness ==
    /\ view = View("create_listing", 403, <<>>)
    /\ listings = <<>>
    /\ \E w \in UserIds :
          /\ users[w].role = "worker"
          /\ HasRow(w)
          /\ RowOf(w).listing_credits >= 1

\* ---- the ledger (C1 to C5)
Employers == {u \in UserIds : users[u].role = "employer"}
CreditsIn(rows, u) ==
    IF \E s \in rows : s.user_id = u
    THEN (CHOOSE s \in rows : s.user_id = u).listing_credits
    ELSE 0
\* The employer's subscription is running at clock reading now.
ActiveAt(u, now) == HasRow(u) /\ has_active_subscription(RowOf(u), now)
CreateDone(r, u) ==
    slot[r].pc = "done" /\ slot[r].op = "create_listing" /\ slot[r].uid = u
\* The step is the commit of slot r's create-listing request.
CreateCommits(r) ==
    /\ slot[r].pc = "loaded"
    /\ slot[r].op = "create_listing"
    /\ slot'[r].pc = "done"
\* The step answers slot r's create-listing request of caller u at once.
CreateRejected(r, u) ==
    /\ slot[r].pc # "loaded"
    /\ slot'[r] # slot[r]
    /\ slot'[r].pc = "done"
    /\ slot'[r].op = "create_listing"
    /\ slot'[r].uid = u

\* C1 as stated: when two create-listing requests of an employer who holds
\* exactly one credit and no active subscription are in flight together, one
\* is answered 201, the other 402, and the account is left with 0 credits.
C1_LastCreditSpentOnce ==
    \A u \in Employers :
        (\A r \in Slots : CreateDone(r, u) /\ slot[r].race)
            => /\ {slot[r].status : r \in Slots} = {201, 402}
               /\ CreditsIn(subs, u) = 0

\* C2 as stated: an employer without active subscription spends the granted
\* credits one by one: while a credit is left a create-listing request is
\* answered 201 and takes exactly one credit, and the request that follows
\* the last credit is answered 402.
C2_CreditsSpentOneByOne ==
    [][\A r \in Slots, now \in Clock :
          LET u == slot[r].uid
          IN  (/\ CreateCommits(r)
               /\ u \in Employers
               /\ HasRow(u)
               /\ ~ActiveAt(u, now)
               /\ \A o \in Slots \ {r} : slot[o].pc # "loaded")
              => IF CreditsIn(subs, u) > 0
                 THEN /\ slot'[r].status = 201
                      /\ CreditsIn(subs', u) = CreditsIn(subs, u) - 1
                 ELSE slot'[r].status = 402]_vars

\* C3 as stated: a create-listing request of an employer with 0 credits (or
\* no account row) and no active subscription is answered 402 and adds no
\* Listing row.
C3_NoCreditNoListing ==
    [][\A r \in Slots, now \in Clock :
          LET u == slot[r].uid
          IN  (/\ CreateCommits(r)
               /\ u \in Employers
               /\ CreditsIn(subs, u) = 0
               /\ ~ActiveAt(u, now))
              => /\ slot'[r].status = 402
                 /\ listings' = listings]_vars

\* C4: in every reachable state, whatever the interleaving of purchase
\* webhooks and create-listing requests, every account's listing_credits is
\* at least 0.
C4_CreditsNeverNegative == \A s \in subs : s.listing_credits >= 0

\* A purchase webhook and a create-listing request of the same employer have
\* both been served, and the account holds credits.
C4_Witness ==
    \E u \in Employers, r \in Slots, o \in Slots :
        /\ slot[r].pc = "done" /\ slot[r].op = "billing_webhook"
        /\ slot[r].status = 200
        /\ CreateDone(o, u) /\ slot[o].status = 201
        /\ CreditsIn(subs, u) >= 1

ListingIds == 1..Len(listings)
\* canView of the specification; viewer 0 is the absent viewer.
canView(listing, viewer) ==
    \/ listing.is_public
    \/ /\ viewer # 0
       /\ \/ users[viewer].role = "admin"
          \/ viewer = listing.created_by
          \/ users[viewer].verification_status = "approved"

\* C11: for every stored listing and every viewer (absent, or any registered
\* user), _can_access_listing is exactly isPublic, or the viewer is present
\* and is an admin, the owner or approved; _visible_contact gives the same
\* value; and get_listing answers an existing listing 200 exactly then.
C11_CanViewExactly ==
    \A i \in ListingIds, viewer \in Callers :
        /\ _can_access_listing(listings[i], viewer) = canView(listings[i], viewer)
        /\ _visible_contact(listings[i], viewer) = canView(listings[i], viewer)
        /\ (get_listing_status(viewer, i) = 200) = canView(listings[i], viewer)

\* A private listing has been fetched and refused while an approved user who
\* is neither admin nor its owner, and a pending one, are registered.
C11_Witness ==
    /\ view.op = "get_listing"
    /\ view.status = 403
    /\ \E i \in ListingIds, v \in UserIds :
          /\ ~listings[i].is_public
          /\ users[v].role # "admin"
          /\ v # listings[i].created_by
          /\ users[v].verification_status = "approved"
          /\ _can_access_listing(listings[i], v)
          /\ ~_can_access_listing(listings[i], 0)

\* isCurrentlyActive of the specification.
isCurrentlyActive(listing, at) ==
    listing.is_active /\ (listing.expires_at = NoTime \/ listing.expires_at >= at)
\* The listing matches the activity filter asked for: the active ones by
\* default and for a true value, the others for a false value.
MatchesActivity(listing, active) ==
    IF active = NoneVal \/ _str_to_bool(active) = "True"
    THEN isCurrentlyActive(listing, utcnow)
    ELSE ~isCurrentlyActive(listing, utcnow)
RowIds(rows) == {rows[k].id : k \in 1..Len(rows)}

\* C12: for every viewer and every stored set of listings, the list response
\* holds exactly the listings that match the requested activity filter and
\* that the viewer can view, each once and with its contact fields; a
\* listing the viewer cannot view is not in the response, masked or not.
C12_ListExactlyVisible ==
    /\ \A viewer \in Callers, active \in {NoneVal, "TRUE", "False"} :
          LET rows == list_listings_results(viewer, NoneVal, active)
          IN  /\ RowIds(rows) =
                    {i \in ListingIds : /\ MatchesActivity(listings[i], active)
                                        /\ canView(listings[i], viewer)}
              /\ Len(rows) = Cardinality(RowIds(rows))
              /\ \A k \in 1..Len(rows) : rows[k].contact
    /\ (view.op = "list_listings" /\ view.status = 200)
          => \A k \in 1..Len(view.results) : view.results[k].contact

\* The list has answered with a private listing and its contact, while an
\* unverified user who is not its owner is registered and cannot view it.
C12_Witness ==
    /\ view.op = "list_listings"
    /\ view.status = 200
    /\ \E i \in ListingIds, v \in UserIds :
          /\ ~listings[i].is_public
          /\ i \in RowIds(view.results)
          /\ ~canView(listings[i], v)
          /\ RowIds(list_listings_results(v, NoneVal, NoneVal)) = {}

\* ---- C38
\* C38: in every reachable state no two applications are of the same user
\* to the same listing, also when two apply requests overlap.
C38_OneApplicationPerPair ==
    \A a, b \in 1..Len(applications) :
        applications[a] = applications[b] => a = b

\* ---- C37
\* C37: for every viewer (absent or registered) and every stored listing,
\* _filter_visibility keeps the listing iff _can_access_listing allows it.
C37_PrefilterAgrees ==
    \A viewer \in Callers, i \in ListingIds :
        (i \in _filter_visibility(ListingIds, viewer))
            = _can_access_listing(listings[i], viewer)

\* The list has been answered while a private listing is stored whose owner
\* is neither verified nor admin, so that the filter's last branch keeps it
\* for the owner and drops it for another unverified user.
C37_Witness ==
    /\ view.op = "list_listings"
    /\ view.status = 200
    /\ \E i \in ListingIds, v \in UserIds :
          /\ ~listings[i].is_public
          /\ users[listings[i].created_by].role # "admin"
          /\ ~users[listings[i].created_by].is_verified
          /\ v # listings[i].created_by
          /\ users[v].role # "admin"
          /\ ~users[v].is_verified
          /\ i \in _filter_visibility(ListingIds, listings[i].created_by)
          /\ i \notin _filter_visibility(ListingIds, v)

\* ---- C36
\* C36: a listing purchase that is acknowledged with 200 has added its
\* quantity, which is at least one, to the account: of two purchases of one
\* user that are handled at the same time and both acknowledged, neither is
\* lost, so the commit of each raises the user's listing_credits.
C36_AcknowledgedGrantAdds ==
    [][\A r \in Slots :
          (/\ slot[r].pc = "loaded"
           /\ slot[r].op = "billing_webhook"
           /\ slot[r].write.kind = "credits"
           /\ billing_webhook_commit(r)
           /\ slot'[r].status = 200)
          => CreditsIn(subs', slot[r].write.user_id)
               > CreditsIn(subs, slot[r].write.user_id)]_vars

\* ---- C35
\* C35: a listing's created_by is the caller of the create_listing that
\* inserted it, no later step changes it or removes the listing, and an
\* update that names created_by is refused and changes nothing, for the owner
\* and for an admin.
C35_OwnerNeverChanges ==
    [][/\ Len(listings') >= Len(listings)
       /\ \A i \in ListingIds : listings'[i].created_by = listings[i].created_by
       /\ \A c \in UserIds, p \in UpdatePayloads :
             (create_listing(c, p) /\ Len(listings') > Len(listings))
             => listings'[Len(listings')].created_by = c
       /\ \A c \in UserIds, i \in ListingIds, data \in UpdateDatas :
             (data.created_by # NullId /\ update_listing(c, i, data))
             => /\ view'.status \in {400, 403}
                /\ listings' = listings]_vars

\* A listing of an employer has been made private by an update and still is
\* the employer's.
C35_Witness ==
    /\ view.op = "update_listing"
    /\ view.status = 200
    /\ \E i \in ListingIds :
          /\ ~listings[i].is_public
          /\ users[listings[i].created_by].role = "employer"

\* ---- C34
\* C34: for a viewer who may not view a stored listing, fetching it is
\* answered like fetching an id that does not exist, which is what the same
\* request is answered when the listing is not there.
C34_HiddenLooksMissing ==
    \A v \in Callers, i \in ListingIds :
        ~canView(listings[i], v)
        => get_listing_status(v, i) = get_listing_status(v, Len(listings) + 1)

\* ---- C33
\* C33: in every state reached by register, upload, approve, reject,
\* mark_verified and mark_unverified, every user's verification_status is
\* one of unverified, pending, approved, rejected.
C33_StatusInDomain ==
    \A u \in UserIds : StatusOf(u) \in VERIFICATION_STATUSES

\* ---- C32
\* The next read of listing i by viewer v is granted.
Granted(v, i) == get_listing_status(v, i) = 200
EmptyBody == Body("empty", NoneVal, NoneVal)
\* The step is a successful approve (reject) of a document of v, or a
\* successful upload by v.
ApprovesOf(v) ==
    \E c \in UserIds, d \in 1..Len(docs) :
        /\ docs[d].user_id = v
        /\ approve_status(c, d) = 200
        /\ approve_document(c, d, EmptyBody)
RejectsOf(v) ==
    \E c \in UserIds, d \in 1..Len(docs) :
        /\ docs[d].user_id = v
        /\ reject_status(c, d, EmptyBody) = 200
        /\ reject_document(c, d, EmptyBody)
SubmitsBy(v) ==
    \E in \in ViewUploads :
        /\ in[1] = v
        /\ upload_status(in[1], in[2], in[3]) = 201
        /\ upload_document(in[1], in[2], in[3], TRUE)

\* C32: for a viewer who is neither admin nor owner of a non-public listing,
\* the read is refused as long as the viewer has no document; it is granted
\* right after an approve of a document of the viewer, refused right after a
\* reject of one or after an upload by the viewer, and no other step changes
\* it.
C32_AccessFollowsLastTransition ==
    /\ [](\A v \in UserIds, i \in ListingIds :
            (users[v].role # "admin" /\ v # listings[i].created_by
               /\ ~listings[i].is_public /\ DocsOf(v) = {})
            => ~Granted(v, i))
    /\ [][\A v \in UserIds, i \in ListingIds :
            (users[v].role # "admin" /\ v # listings[i].created_by
               /\ ~listings[i].is_public)
            => IF ApprovesOf(v) THEN Granted(v, i)'
               ELSE IF RejectsOf(v) \/ SubmitsBy(v) THEN ~Granted(v, i)'
               ELSE Granted(v, i)' = Granted(v, i)]_vars

\* An approved user who submitted again has been refused the private
\* listing of another user.
C32_Witness ==
    /\ view = View("get_listing", 403, <<>>)
    /\ \E v \in UserIds, i \in ListingIds :
          /\ users[v].role # "admin"
          /\ v # listings[i].created_by
          /\ ~listings[i].is_public
          /\ Cardinality(DocsOf(v)) = 2
          /\ docs[1].status = "approved"
          /\ docs[2].status = "pending"
          /\ users[v].verification_status = "pending"

\* ---- C31
\* C31: for every stored listing and every time, the active filter selects
\* the listing iff it is currently active and the inactive filter selects it
\* iff it is not, so exactly one of them selects it; and list_listings gives
\* an admin the one set by default and for active=true and the other set for
\* active=false.
C31_FiltersPartition ==
    /\ \A i \in ListingIds, at \in 0..(LastExpiry + 1) :
          /\ (i \in active_filter(ListingIds, at)) = isCurrentlyActive(listings[i], at)
          /\ (i \in inactive_filter(ListingIds, at)) = ~isCurrentlyActive(listings[i], at)
          /\ (i \in active_filter(ListingIds, at)) # (i \in inactive_filter(ListingIds, at))
    /\ \A a \in UserIds :
          users[a].role = "admin"
          => LET current == {i \in ListingIds : isCurrentlyActive(listings[i], utcnow)}
             IN  /\ RowIds(list_listings_results(a, NoneVal, NoneVal)) = current
                 /\ RowIds(list_listings_results(a, NoneVal, "true")) = current
                 /\ RowIds(list_listings_results(a, NoneVal, "false"))
                      = ListingIds \ current

\* A listing that expires at this very moment has been listed as active.
C31_Witness ==
    /\ view.op = "list_listings"
    /\ view.status = 200
    /\ \E i \in ListingIds :
          /\ listings[i].is_active
          /\ listings[i].expires_at = utcnow
          /\ i \in RowIds(view.results)

\* ---- the gateway (C13 to C16)
ActiveUntilIn(rows, u) ==
    IF \E s \in rows : s.user_id = u
    THEN (CHOOSE s \in rows : s.user_id = u).active_until
    ELSE NoTime
OtherRows(rows, u) == {s \in rows : s.user_id # u}
\* The step is a delivery that was answered 200.
Delivers == delivered' # delivered
\* The events that end in applySubscriptionPeriodEnd(u, t).
SubscriptionEvents(u, t) ==
    {Event("invoice.paid", NoneVal, RawNone, RawNone,
           StripeSubscription(TRUE, TRUE, RawInt(u), t)),
     Event("checkout.session.completed", "subscription", RawNone, RawNone,
           StripeSubscription(TRUE, TRUE, RawInt(u), t))}

\* C13: every webhook delivery that changes an account had its signature
\* verified against the webhook secret, in every configuration.
C13_ChangesAreVerified ==
    [][subs' # subs => hook'.verified]_vars

\* The event names a subscription whose retrieval from the provider fails.
LookupFails(event) ==
    /\ \/ event.type = "invoice.paid"
       \/ event.type = "checkout.session.completed" /\ event.billing_type = "subscription"
    /\ event.subscription.id
    /\ ~event.subscription.retrieved

\* C24: a delivery that passes the signature gate and whose subscription
\* lookup fails is answered 502 (ExternalServiceError), not with success, and
\* changes no account.
C24_LookupFailureSurfaces ==
    [][\A in \in GatewayInputs :
          (LookupFails(in[2]) /\ webhook_gate(in[1]) = 0 /\ billing_webhook(in[1], in[2]))
          => hook'.status = 502 /\ subs' = subs]_vars

\* The event is one of those the gateway has to ignore: a type it does not
\* know, a checkout that is neither a listing purchase nor a subscription, a
\* listing purchase without an integer user_id, or a subscription event
\* without a subscription reference, without an integer user_id or without a
\* period end.
Malformed(event) ==
    LET of_subscription ==
            \/ event.type = "invoice.paid"
            \/ event.type = "checkout.session.completed"
                 /\ event.billing_type = "subscription"
    IN  \/ event.type \notin {"checkout.session.completed", "invoice.paid"}
        \/ event.type = "checkout.session.completed"
             /\ event.billing_type \notin {"listing", "subscription"}
        \/ event.type = "checkout.session.completed"
             /\ event.billing_type = "listing"
             /\ event.user_id.tag # "int"
        \/ of_subscription /\ ~event.subscription.id
        \/ of_subscription
             /\ event.subscription.retrieved
             /\ \/ event.subscription.user_id.tag # "int"
                \/ event.subscription.current_period_end = NoTime

\* C30: a delivery of such an event that passes the signature gate is
\* answered 200 and leaves every account as it was: no credits, no
\* active_until, no new account.
C30_MalformedIgnored ==
    [][\A in \in GatewayInputs :
          (Malformed(in[2]) /\ webhook_gate(in[1]) = 0 /\ billing_webhook(in[1], in[2]))
          => hook'.status = 200 /\ subs' = subs]_vars

\* A subscription event without a period end has been answered 200 while
\* accounts exist.
C30_Witness ==
    /\ hook.status = 200
    /\ Malformed(hook.event)
    /\ hook.event.type = "checkout.session.completed"
    /\ hook.event.billing_type = "subscription"
    /\ hook.event.subscription.retrieved
    /\ hook.event.subscription.current_period_end = NoTime
    /\ subs # {}

\* C14: a delivery of a checkout.session.completed event with billing_type
\* listing, user_id U and quantity q >= 1 that is answered 200 raises U's
\* listing_credits by exactly q, from 0 when U had no account, and changes no
\* other account and no active_until.
C14_ListingGrantExact ==
    [][\A u \in GatewayUserIds, q \in 1..MaxQuantity :
          (Delivers /\ hook'.event = ListingEvent(RawInt(u), RawInt(q)))
          => /\ Cardinality({s \in subs' : s.user_id = u}) = 1
             /\ CreditsIn(subs', u) = CreditsIn(subs, u) + q
             /\ ActiveUntilIn(subs', u) = ActiveUntilIn(subs, u)
             /\ OtherRows(subs', u) = OtherRows(subs, u)]_vars

\* A grant of the largest quantity has been added to an account that held
\* credits, next to another account.
C14_Witness ==
    /\ hook.status = 200
    /\ hook.event = ListingEvent(RawInt(1), RawInt(MaxQuantity))
    /\ CreditsIn(subs, 1) > MaxQuantity
    /\ \E s \in subs : s.user_id = 2

\* C15: a subscription or invoice event with period end t sets the account's
\* active_until to the later of the stored one and t (to t when none is
\* stored); over every sequence of deliveries no account's active_until
\* decreases or goes back to absent, and no account disappears.
C15_ActiveUntilMax ==
    [][/\ \A s \in subs : \E n \in subs' :
             n.user_id = s.user_id /\ n.active_until >= s.active_until
       /\ \A u \in GatewayUserIds, t \in PeriodEnds :
             (Delivers /\ hook'.event \in SubscriptionEvents(u, t))
             => /\ ActiveUntilIn(subs', u) = PyMax(ActiveUntilIn(subs, u), t)
                /\ ActiveUntilIn(subs', u) # NoTime]_vars

\* An event with the earliest period end was delivered to an account whose
\* stored period ends later, and the later end is still stored.
C15_Witness ==
    /\ hook.status = 200
    /\ hook.event \in SubscriptionEvents(1, 0)
    /\ ActiveUntilIn(subs, 1) = MaxPeriodEnd
    /\ MaxPeriodEnd > 0

\* C16: a delivery of an event that was already delivered and applied
\* changes no account, so k deliveries of one event grant its quantity once.
C16_RedeliveryAppliesNothing ==
    [][(Delivers /\ BagIn(hook'.event, delivered)) => subs' = subs]_vars

\* ---- C6
SpecEdges ==
    {<<"unverified", "pending">>, <<"pending", "approved">>,
     <<"pending", "rejected">>, <<"approved", "pending">>,
     <<"rejected", "pending">>}
CodeEdges == SpecEdges \cup {<<"approved", "rejected">>, <<"rejected", "approved">>}

C7_VerifiedFlagAgrees ==
    \A i \in UserIds : users[i].is_verified = (StatusOf(i) = "approved")

C7_Witness ==
    /\ resp = Response("approve", 200)
    /\ \E i \in UserIds : StatusOf(i) = "approved" /\ users[i].is_verified
    /\ \E i \in UserIds : StatusOf(i) = "unverified" /\ ~users[i].is_verified

\* ---- C8
\* C8: an upload with a valid file whose waiver parses to false is answered
\* 400 and changes neither the documents nor any user.
C8_WaiverFalseRejected ==
    [][\A in \in UploadInputs :
          (/\ upload_document(in[1], in[2], in[3], TRUE)
           /\ in[1] \in UserIds
           /\ in[2] \in GoodFiles
           /\ _parse_bool(in[3]) = "False")
          => (resp'.status = 400 /\ docs' = docs /\ users' = users)]_vars

\* ---- C9
\* The note a review request supplies: the review_note key, else the note
\* key, null without a JSON body or when both are blank.
SuppliedNote(body) ==
    IF body.kind = "json" THEN PyOr(body.review_note, body.note) ELSE NoneVal

ResolvePost(new_docs, new_users, caller, d, decision, note) ==
    /\ new_docs[d].status = decision
    /\ new_docs[d].reviewer_id = caller
    /\ new_docs[d].review_note = note
    /\ new_users[docs[d].user_id].verification_status = decision
    /\ new_users[docs[d].user_id].is_verified = (decision = "approved")

C29_AccountsOfEmployers ==
    /\ \A s, t \in subs : s.user_id = t.user_id => s = t
    /\ \A s \in subs :
          /\ s.user_id \in 1..Len(users)
          /\ users[s.user_id].role \in {"employer", "admin"}

\* ---- C28
\* The document and its owner already are as this resolve leaves them.
AlreadyResolvedAs(caller, d, decision, note) ==
    ResolvePost(docs, users, caller, d, decision, note)

\* C28: in every reachable state, a resolve by an admin of a document that is
\* already resolved, with an empty or a JSON body, is answered 200 and
\* overwrites: the document has the new decision, the new
\* reviewer and the new note (none after an approve, whatever note a
\* rejection had stored), and the owner has the new decision; a resolve that
\* repeats the one the document already shows changes nothing.
C28_ResolveOverwrites ==
    \A c \in UserIds, d \in 1..Len(docs), b \in Bodies :
        (users[c].role = "admin" /\ docs[d].status # "pending")
        => /\ approve_status(c, d) = 200
           /\ ResolvePost(approve_docs(c, d), approve_users(d), c, d, "approved", NoneVal)
           /\ AlreadyResolvedAs(c, d, "approved", NoneVal)
                => (approve_docs(c, d) = docs /\ approve_users(d) = users)
           /\ b.kind # "form"
                => /\ reject_status(c, d, b) = 200
                   /\ ResolvePost(reject_docs(c, d, b), reject_users(d),
                                  c, d, "rejected", SuppliedNote(b))
                   /\ AlreadyResolvedAs(c, d, "rejected", SuppliedNote(b))
                        => (reject_docs(c, d, b) = docs /\ reject_users(d) = users)

\* A document rejected with a note now stands approved by an admin, without
\* a note, and its owner is verified.
C28_Witness ==
    /\ resp = Response("approve", 200)
    /\ \E d \in 1..Len(docs) :
          /\ docs[d].status = "approved"
          /\ docs[d].review_note = NoneVal
          /\ docs[d].reviewer_id \in UserIds
          /\ users[docs[d].user_id].is_verified

\* ---- C10
\* C10: a resolve by a registered non-admin is answered 403 whether or not
\* the document exists, a resolve by an admin of a missing document is
\* answered 404, and both leave every document and every user unchanged.
C10_FailedResolveChangesNothing ==
    /\ [](\A c \in UserIds, d \in DocIds, b \in Bodies :
            /\ users[c].role # "admin"
               => (approve_status(c, d) = 403 /\ reject_status(c, d, b) = 403)
            /\ (users[c].role = "admin" /\ d \notin 1..Len(docs))
               => (approve_status(c, d) = 404 /\ reject_status(c, d, b) = 404))
    /\ [][(resp'.op \in {"approve", "reject"} /\ resp'.status \in {403, 404})
          => (docs' = docs /\ users' = users)]_vars

C10_Witness ==
    /\ resp = Response("reject", 403)
    /\ \E d \in 1..Len(docs) : docs[d].status = "pending"
    /\ \E i \in UserIds : users[i].role = "admin"

====
